---- MODULE Spec2Model ----
(***************************************************************************)
(* Model of the dca-optimizer decision engine (src/core/strategies.py),    *)
(* its configuration (src/core/config.py) and its position ledger          *)
(* (src/core/database.py, SellRepository).                                  *)
(*                                                                         *)
(* Numbers.  The program computes on Python floats; the model computes on  *)
(* integers in fixed point, so that every comparison and product of the    *)
(* code is exact:                                                          *)
(*   prices, ma7, USD amounts      whole dollars                           *)
(*   ma_dip_threshold              hundredths      (0.97  -> 97)           *)
(*   pct_change_7d, weekly drop    tenths of a %   (-3.0  -> -30)          *)
(*   buy multipliers               tenths          (1.6   -> 16)           *)
(*   rsi, fear & greed             points                                  *)
(*   mvrv, nupl, mayer             hundredths      (0.65  -> 65)           *)
(*   sell tiers (sell_percentage)  hundredths      (0.25  -> 25)           *)
(*   BTC amounts                   tenths of a BTC (0.5   -> 5)            *)
(* A product keeps the scale of its factors (suggested_amount is in tenths *)
(* of a dollar, sell_amount_btc in thousandths of a BTC).  Float rounding  *)
(* is not modelled.  Timestamps (datetime.now()) and the text of reason    *)
(* strings are not modelled: a reason is the tag of the condition that     *)
(* produced it.                                                            *)
(***************************************************************************)
EXTENDS Integers, Sequences, FiniteSets, TLC

VARIABLES
    buy_config,       \* config.buy, the BuyConfig the buy strategy reads
    buy_signal,       \* the BuySignal returned by the last DCABuyStrategy.evaluate
    indicator,        \* the Indicator returned by the last _create_indicator call
    sell_config,      \* config.sell, the SellConfig the sell strategy reads
    sell_signal,      \* the SellSignal returned by the last DCASellStrategy.evaluate
    sell_args,        \* the arguments of that evaluation, and what check_pi_cycle gave it
    price_series,     \* the daily prices the market API answers with, oldest first
    historical_df,    \* column "price" of the frame the last check_pi_cycle call was given
    pi_cycle_result,  \* what that call returned (<<>> before any call)
    position,         \* table position of the sell database (at most the row id = 1)
    sell_signals,     \* table sell_signals
    sell_executions,  \* table sell_executions, in insertion order
    signal_seq,       \* sqlite_sequence of sell_signals (AUTOINCREMENT)
    last_op,          \* the repository call that made the last step, with its result
    db_initial,       \* the database the concurrent callers found
    db_lock,          \* the caller whose connection holds the write lock of the file (0: none)
    callers,          \* per concurrent caller: its call, its place in it, its open transaction
    provider,         \* what the price, sentiment and on-chain APIs answer with
    full_market_data, \* the MarketData get_full_market_data(for_sell=True) built (<<>>: none)
    buy_run,          \* the run of dca_buy.main in progress or last returned
    price_history,    \* table price_history of the buy database, in insertion order
    buy_signals,      \* table signals of the buy database, in insertion order
    commands          \* the dca_utils commands run so far, each with its repository and outcome

vars == <<buy_config, buy_signal, indicator, sell_config, sell_signal,
          sell_args, price_series, historical_df, pi_cycle_result,
          position, sell_signals, sell_executions, signal_seq, last_op,
          db_initial, db_lock, callers, provider, full_market_data,
          buy_run, price_history, buy_signals, commands>>

buy_vars == <<buy_config, buy_signal>>
history_vars == <<price_series, historical_df, pi_cycle_result>>
sell_vars == <<sell_config, sell_signal, sell_args, history_vars>>
connection_vars == <<db_initial, db_lock, callers>>
snapshot_vars == <<provider, full_market_data>>
buy_run_vars == <<buy_run, price_history, buy_signals>>
command_vars == <<commands>>
run_vars == <<snapshot_vars, buy_run_vars, command_vars>>
ledger_vars == <<position, sell_signals, sell_executions, signal_seq, last_op,
                 connection_vars, run_vars>>

(***************************************************************************)
(* Optional values (Python's None)                                         *)
(***************************************************************************)
None == [some |-> FALSE, val |-> 0]
Some(v) == [some |-> TRUE, val |-> v]

Max(a, b) == IF a >= b THEN a ELSE b
Min(a, b) == IF a <= b THEN a ELSE b

(***************************************************************************)
(* config.py: BuyConfig                                                    *)
(***************************************************************************)
base_amount_usd == 100
rsi_oversold == 35
rsi_overbought == 70
ma_dip_threshold == 97
weekly_drop_threshold == -30
mult_turbo_buy == 16
mult_extra_buy == 13
mult_normal_dca == 10
mult_skip == 0

\* multipliers is a dict: a partial map from signal type to multiplier
DefaultMultipliers ==
    [TURBO_BUY |-> mult_turbo_buy, EXTRA_BUY |-> mult_extra_buy,
     NORMAL_DCA |-> mult_normal_dca, SKIP |-> mult_skip]

DefaultBuyConfig ==
    [base_amount_usd |-> base_amount_usd,
     rsi_oversold |-> rsi_oversold,
     rsi_overbought |-> rsi_overbought,
     ma_dip_threshold |-> ma_dip_threshold,
     weekly_drop_threshold |-> weekly_drop_threshold,
     multipliers |-> DefaultMultipliers]

\* Buy configurations the singleton may hold: the defaults, the defaults with
\* DCA_BASE_AMOUNT set in the environment, and an overridden one
\* (DCA_BASE_AMOUNT set, thresholds and multipliers reassigned).
BuyConfigs ==
    {DefaultBuyConfig,
     [DefaultBuyConfig EXCEPT !.base_amount_usd = 50],
     [base_amount_usd |-> 50, rsi_oversold |-> 30, rsi_overbought |-> 75,
      ma_dip_threshold |-> 95, weekly_drop_threshold |-> -50,
      multipliers |-> [TURBO_BUY |-> 20, EXTRA_BUY |-> 15,
                       NORMAL_DCA |-> 10, SKIP |-> 0]]}

(***************************************************************************)
(* database.py: MarketData (the fields the strategies read)                *)
(***************************************************************************)
\* Inputs of the buy path.  They hold each threshold of both configurations,
\* and a value on either side of it.
BuyRsiValues == {29, 30, 34, 35, 50, 70, 71, 75, 76}
BuyPctChange7dValues == {-51, -50, -31, -30, -29, 10}
BuyMa7Values == {100}
BuyPriceValues == {94, 95, 96, 97, 98}

BuyMarketData ==
    [price : BuyPriceValues, ma7 : BuyMa7Values,
     pct_change_7d : BuyPctChange7dValues, rsi : BuyRsiValues]

(***************************************************************************)
(* strategies.py: DCABuyStrategy                                           *)
(***************************************************************************)
\* dict.get(signal_type, 1.0)
multipliers_get(multipliers, signal_type) ==
    IF signal_type \in DOMAIN multipliers THEN multipliers[signal_type]
    ELSE mult_normal_dca

\* Mutant: the amount is the base amount, whatever the multiplier
create_signal_flat(cfg, signal_type, reasons, market_data) ==
    [signal_type |-> signal_type,
     multiplier |-> multipliers_get(cfg.multipliers, signal_type),
     suggested_amount |-> cfg.base_amount_usd * mult_normal_dca,
     reasons |-> reasons,
     market_data |-> market_data]

create_signal(cfg, signal_type, reasons, market_data) ==
    LET multiplier == multipliers_get(cfg.multipliers, signal_type)
    IN  [signal_type |-> signal_type,
         multiplier |-> multiplier,
         suggested_amount |-> cfg.base_amount_usd * multiplier,
         reasons |-> reasons,
         market_data |-> market_data]

\* price < ma7 * ma_dip_threshold, both sides times 100
price_below_ma7_dip(cfg, market_data) ==
    market_data.price * 100 < market_data.ma7 * cfg.ma_dip_threshold

weekly_drop(cfg, market_data) ==
    market_data.pct_change_7d <= cfg.weekly_drop_threshold

turbo_reasons(cfg, market_data) ==
    (IF price_below_ma7_dip(cfg, market_data) THEN <<"price_below_ma7">> ELSE <<>>)
    \o (IF weekly_drop(cfg, market_data) THEN <<"weekly_drop">> ELSE <<>>)

\* Mutant: the turbo triggers are tested before the overbought RSI
DCABuyStrategy_evaluate_turbo_first(cfg, market_data) ==
    IF turbo_reasons(cfg, market_data) # <<>>
    THEN create_signal(cfg, "TURBO_BUY", turbo_reasons(cfg, market_data), market_data)
    ELSE IF market_data.rsi > cfg.rsi_overbought
    THEN create_signal(cfg, "SKIP", <<"rsi_overbought">>, market_data)
    ELSE IF market_data.rsi < cfg.rsi_oversold
    THEN create_signal(cfg, "EXTRA_BUY", <<"rsi_oversold">>, market_data)
    ELSE create_signal(cfg, "NORMAL_DCA", <<"normal">>, market_data)

DCABuyStrategy_evaluate(cfg, market_data) ==
    IF market_data.rsi > cfg.rsi_overbought
    THEN create_signal(cfg, "SKIP", <<"rsi_overbought">>, market_data)
    ELSE IF turbo_reasons(cfg, market_data) # <<>>
    THEN create_signal(cfg, "TURBO_BUY", turbo_reasons(cfg, market_data), market_data)
    ELSE IF market_data.rsi < cfg.rsi_oversold
    THEN create_signal(cfg, "EXTRA_BUY", <<"rsi_oversold">>, market_data)
    ELSE create_signal(cfg, "NORMAL_DCA", <<"normal">>, market_data)

(***************************************************************************)
(* dca_optimizer.py: the standalone buy script                             *)
(*                                                                         *)
(* Its CONFIG reads DCA_BASE_AMOUNT as BuyConfig does (default 100) and    *)
(* holds the thresholds as literals; MULTIPLIERS is a dict of literals.    *)
(* Multipliers are in tenths and thresholds in the units of BuyConfig.     *)
(***************************************************************************)
dca_optimizer_CONFIG(env_base_amount) ==
    [base_amount_usd |-> env_base_amount,
     rsi_oversold |-> 35,
     rsi_overbought |-> 70,
     ma_dip_threshold |-> 97,
     weekly_drop_threshold |-> -30]

MULTIPLIERS ==
    [TURBO_BUY |-> 16, EXTRA_BUY |-> 13, NORMAL_DCA |-> 10, SKIP |-> 0]

\* dca_optimizer.evaluate_market; cfg is the script's CONFIG.  The list turbo
\* is not empty when either of the two conditions holds.  SKIP returns the
\* literal 0 and NORMAL_DCA the base amount itself (10 tenths of it).
evaluate_market(cfg, data) ==
    IF data.rsi > cfg.rsi_overbought
    THEN [signal_type |-> "SKIP", multiplier |-> MULTIPLIERS["SKIP"],
          suggested_amount |-> 0]
    ELSE IF data.price * 100 < data.ma7 * cfg.ma_dip_threshold
            \/ data.pct_change_7d <= cfg.weekly_drop_threshold
    THEN [signal_type |-> "TURBO_BUY", multiplier |-> MULTIPLIERS["TURBO_BUY"],
          suggested_amount |-> cfg.base_amount_usd * MULTIPLIERS["TURBO_BUY"]]
    ELSE IF data.rsi < cfg.rsi_oversold
    THEN [signal_type |-> "EXTRA_BUY", multiplier |-> MULTIPLIERS["EXTRA_BUY"],
          suggested_amount |-> cfg.base_amount_usd * MULTIPLIERS["EXTRA_BUY"]]
    ELSE [signal_type |-> "NORMAL_DCA", multiplier |-> MULTIPLIERS["NORMAL_DCA"],
          suggested_amount |-> cfg.base_amount_usd * 10]

(***************************************************************************)
(* dca_backtest.py: backtest_strategy                                      *)
(*                                                                         *)
(* The base amount and the thresholds are keyword parameters; the script's *)
(* main calls backtest_strategy(df), so they take their defaults.          *)
(***************************************************************************)
backtest_defaults ==
    [base_amount |-> 100, rsi_oversold |-> 35, rsi_overbought |-> 70,
     ma_dip |-> 97, weekly_drop |-> -30]

\* The body of "for date, row in weekly.iterrows()" up to amount_optimized
backtest_strategy_week(params, row) ==
    LET classified ==
            IF row.rsi > params.rsi_overbought
            THEN [signal |-> "SKIP", multiplier |-> 0]
            ELSE IF row.price * 100 < row.ma7 * params.ma_dip
                    \/ row.pct_7d <= params.weekly_drop
            THEN [signal |-> "TURBO_BUY", multiplier |-> 16]
            ELSE IF row.rsi < params.rsi_oversold
            THEN [signal |-> "EXTRA_BUY", multiplier |-> 13]
            ELSE [signal |-> "NORMAL_DCA", multiplier |-> 10]
    IN  [signal |-> classified.signal,
         multiplier |-> classified.multiplier,
         usd_optimized |-> params.base_amount * classified.multiplier]

(***************************************************************************)
(* config.py: SellConfig                                                   *)
(***************************************************************************)
total_btc == 5
cost_basis_usd == 25000
mvrv_warning == 300
mvrv_danger == 500
mvrv_critical == 700
nupl_warning == 50
nupl_danger == 65
nupl_critical == 75
rsi_warning == 70
rsi_danger == 80
rsi_critical == 88
mayer_warning == 150
mayer_danger == 200
mayer_critical == 240
tier_1 == 10
tier_2 == 15
tier_3 == 25
tier_pi_cycle == 25
min_signals_to_alert == 1
min_signals_to_sell == 2
\* strategies.py: the literals of the Fear & Greed indicator and of .get(1, ..), .get(2, ..)
fear_greed_warning == 65
fear_greed_danger == 75
fear_greed_critical == 85
tier_1_fallback == 10
tier_2_fallback == 15

\* sell_tiers is a dict keyed by 1, 2, 3 and "pi_cycle"
DefaultSellTiers ==
    ("1" :> tier_1) @@ ("2" :> tier_2) @@ ("3" :> tier_3) @@ ("pi_cycle" :> tier_pi_cycle)

\* Tier dicts the configuration may hold: the defaults; a dict without the keys
\* 1 and 2 (read with .get); a pi-cycle tier below tier 1; tiers that do not
\* rise with severity; a pi-cycle tier of 0.
SellTierSets ==
    {DefaultSellTiers,
     ("3" :> 30) @@ ("pi_cycle" :> 40),
     ("1" :> 10) @@ ("2" :> 15) @@ ("3" :> 25) @@ ("pi_cycle" :> 5),
     ("1" :> 20) @@ ("2" :> 15) @@ ("3" :> 10) @@ ("pi_cycle" :> 5),
     ("1" :> 10) @@ ("2" :> 15) @@ ("3" :> 25) @@ ("pi_cycle" :> 0)}

MinSignalSets ==
    {[alert |-> min_signals_to_alert, sell |-> min_signals_to_sell],
     [alert |-> 2, sell |-> 3]}

SellConfigOf(tiers, mins) ==
    [total_btc |-> total_btc, cost_basis_usd |-> cost_basis_usd,
     mvrv_warning |-> mvrv_warning, mvrv_danger |-> mvrv_danger,
     mvrv_critical |-> mvrv_critical,
     nupl_warning |-> nupl_warning, nupl_danger |-> nupl_danger,
     nupl_critical |-> nupl_critical,
     rsi_warning |-> rsi_warning, rsi_danger |-> rsi_danger,
     rsi_critical |-> rsi_critical,
     mayer_warning |-> mayer_warning, mayer_danger |-> mayer_danger,
     mayer_critical |-> mayer_critical,
     sell_tiers |-> tiers,
     min_signals_to_alert |-> mins.alert,
     min_signals_to_sell |-> mins.sell]

DefaultSellConfig ==
    SellConfigOf(DefaultSellTiers,
                 [alert |-> min_signals_to_alert, sell |-> min_signals_to_sell])

SellConfigs == {SellConfigOf(t, m) : t \in SellTierSets, m \in MinSignalSets}

(***************************************************************************)
(* database.py: Position                                                   *)
(***************************************************************************)
remaining_btc(pos) == pos.total_btc - pos.sold_btc

(***************************************************************************)
(* strategies.py: DCASellStrategy                                          *)
(***************************************************************************)
\* Mutant: a value on a threshold stays below it
create_indicator_strict(name, value, warn, danger, critical) ==
    LET level == IF value > critical THEN "CRITICAL"
                 ELSE IF value > danger THEN "DANGER"
                 ELSE IF value > warn THEN "WARNING"
                 ELSE "SAFE"
    IN  [name |-> name, value |-> value, level |-> level,
         threshold_warning |-> warn, threshold_danger |-> danger,
         threshold_critical |-> critical]

create_indicator(name, value, warn, danger, critical) ==
    LET level == IF value >= critical THEN "CRITICAL"
                 ELSE IF value >= danger THEN "DANGER"
                 ELSE IF value >= warn THEN "WARNING"
                 ELSE "SAFE"
    IN  [name |-> name, value |-> value, level |-> level,
         threshold_warning |-> warn, threshold_danger |-> danger,
         threshold_critical |-> critical]

\* Mutant: an absent metric is listed as a SAFE indicator of value 0
evaluate_indicators_safe_default(cfg, data) ==
    <<create_indicator("MVRV Z-Score",
                       IF data.mvrv_zscore.some THEN data.mvrv_zscore.val ELSE 0,
                       cfg.mvrv_warning, cfg.mvrv_danger, cfg.mvrv_critical),
      create_indicator("NUPL", IF data.nupl.some THEN data.nupl.val ELSE 0,
                       cfg.nupl_warning, cfg.nupl_danger, cfg.nupl_critical),
      create_indicator("RSI (Daily)", data.rsi,
                       cfg.rsi_warning, cfg.rsi_danger, cfg.rsi_critical),
      create_indicator("Mayer Multiple",
                       IF data.mayer_multiple.some THEN data.mayer_multiple.val ELSE 0,
                       cfg.mayer_warning, cfg.mayer_danger, cfg.mayer_critical),
      create_indicator("Fear & Greed",
                       IF data.fear_greed.some THEN data.fear_greed.val ELSE 0,
                       fear_greed_warning, fear_greed_danger, fear_greed_critical)>>

evaluate_indicators(cfg, data) ==
    (IF data.mvrv_zscore.some
     THEN <<create_indicator("MVRV Z-Score", data.mvrv_zscore.val,
                             cfg.mvrv_warning, cfg.mvrv_danger, cfg.mvrv_critical)>>
     ELSE <<>>)
    \o (IF data.nupl.some
        THEN <<create_indicator("NUPL", data.nupl.val,
                                cfg.nupl_warning, cfg.nupl_danger, cfg.nupl_critical)>>
        ELSE <<>>)
    \o <<create_indicator("RSI (Daily)", data.rsi,
                          cfg.rsi_warning, cfg.rsi_danger, cfg.rsi_critical)>>
    \o (IF data.mayer_multiple.some
        THEN <<create_indicator("Mayer Multiple", data.mayer_multiple.val,
                                cfg.mayer_warning, cfg.mayer_danger, cfg.mayer_critical)>>
        ELSE <<>>)
    \o (IF data.fear_greed.some
        THEN <<create_indicator("Fear & Greed", data.fear_greed.val,
                                fear_greed_warning, fear_greed_danger,
                                fear_greed_critical)>>
        ELSE <<>>)

CountLevel(indicators, level) ==
    Cardinality({i \in 1..Len(indicators) : indicators[i].level = level})

count_signals(indicators) ==
    [warning |-> CountLevel(indicators, "WARNING"),
     danger |-> CountLevel(indicators, "DANGER"),
     critical |-> CountLevel(indicators, "CRITICAL")]

\* Mutant: the sum is not clamped
calculate_risk_score_unclamped(counts, pi_cycle) ==
    counts.warning * 10 + counts.danger * 25 + counts.critical * 40
    + (IF pi_cycle THEN 30 ELSE 0)

\* Mutant: the sum wraps around instead of being clamped
calculate_risk_score_wrapped(counts, pi_cycle) ==
    (counts.warning * 10 + counts.danger * 25 + counts.critical * 40
     + (IF pi_cycle THEN 30 ELSE 0)) % 101

calculate_risk_score(counts, pi_cycle) ==
    Min(counts.warning * 10 + counts.danger * 25 + counts.critical * 40
        + (IF pi_cycle THEN 30 ELSE 0), 100)

\* dict.get(key, default)
sell_tiers_get(tiers, key, default) ==
    IF key \in DOMAIN tiers THEN tiers[key] ELSE default

\* Mutant: the tiers add up
recommendation_step_additive(cfg, acc, ind) ==
    IF ind.level = "CRITICAL"
    THEN [sell_pct |-> acc.sell_pct + cfg.sell_tiers["3"],
          reasons |-> Append(acc.reasons, [name |-> ind.name, level |-> "CRITICAL"])]
    ELSE IF ind.level = "DANGER"
    THEN [sell_pct |-> acc.sell_pct
                       + sell_tiers_get(cfg.sell_tiers, "2", tier_2_fallback),
          reasons |-> Append(acc.reasons, [name |-> ind.name, level |-> "DANGER"])]
    ELSE IF ind.level = "WARNING" /\ acc.sell_pct = 0
    THEN [sell_pct |-> sell_tiers_get(cfg.sell_tiers, "1", tier_1_fallback),
          reasons |-> Append(acc.reasons, [name |-> ind.name, level |-> "WARNING"])]
    ELSE acc

\* One pass of the loop "for ind in indicators" of _generate_recommendation:
\* acc holds the locals sell_pct and reasons.
recommendation_step(cfg, acc, ind) ==
    IF ind.level = "CRITICAL"
    THEN [sell_pct |-> Max(acc.sell_pct, cfg.sell_tiers["3"]),
          reasons |-> Append(acc.reasons, [name |-> ind.name, level |-> "CRITICAL"])]
    ELSE IF ind.level = "DANGER"
    THEN [sell_pct |-> Max(acc.sell_pct,
                           sell_tiers_get(cfg.sell_tiers, "2", tier_2_fallback)),
          reasons |-> Append(acc.reasons, [name |-> ind.name, level |-> "DANGER"])]
    ELSE IF ind.level = "WARNING" /\ acc.sell_pct = 0
    THEN [sell_pct |-> sell_tiers_get(cfg.sell_tiers, "1", tier_1_fallback),
          reasons |-> Append(acc.reasons, [name |-> ind.name, level |-> "WARNING"])]
    ELSE acc

RECURSIVE recommendation_loop(_, _, _)
recommendation_loop(cfg, acc, indicators) ==
    IF indicators = <<>> THEN acc
    ELSE recommendation_loop(cfg, recommendation_step(cfg, acc, Head(indicators)),
                             Tail(indicators))

\* The locals sell_pct and reasons after the Pi Cycle branch
recommendation_start(cfg, pi_cycle) ==
    IF pi_cycle
    THEN [sell_pct |-> Max(0, cfg.sell_tiers["pi_cycle"]),
          reasons |-> <<[name |-> "PI CYCLE TOP", level |-> "PI_CYCLE"]>>]
    ELSE [sell_pct |-> 0, reasons |-> <<>>]

\* Mutant: Pi Cycle does not bypass the signal count
classify_count_only(cfg, counts, pi_cycle) ==
    LET total_signals == counts.warning + counts.danger + counts.critical
    IN  IF total_signals >= cfg.min_signals_to_sell THEN "SELL"
        ELSE IF total_signals >= cfg.min_signals_to_alert THEN "ALERT"
        ELSE "HOLD"

\* Mutant: below min_signals_to_sell the signal is HOLD, never ALERT
classify_no_alert(cfg, counts, pi_cycle) ==
    LET total_signals == counts.warning + counts.danger + counts.critical
    IN  IF total_signals >= cfg.min_signals_to_sell \/ pi_cycle THEN "SELL"
        ELSE "HOLD"

classify(cfg, counts, pi_cycle) ==
    LET total_signals == counts.warning + counts.danger + counts.critical
    IN  IF total_signals >= cfg.min_signals_to_sell \/ pi_cycle THEN "SELL"
        ELSE IF total_signals >= cfg.min_signals_to_alert THEN "ALERT"
        ELSE "HOLD"

\* Mutant: the amount is a share of the original holdings, not of what is left
generate_recommendation_of_total(cfg, indicators, counts, pi_cycle, risk_score, market_data, pos) ==
    LET acc == recommendation_loop(cfg, recommendation_start(cfg, pi_cycle), indicators)
        sell_btc == pos.total_btc * acc.sell_pct
        sell_usd == sell_btc * market_data.price
        signal_type == classify(cfg, counts, pi_cycle)
    IN  [signal_type |-> signal_type,
         risk_score |-> risk_score,
         sell_percentage |-> acc.sell_pct,
         sell_amount_btc |-> sell_btc,
         sell_amount_usd |-> sell_usd,
         reasons |-> IF signal_type = "HOLD"
                     THEN <<[name |-> "all safe", level |-> "SAFE"]>>
                     ELSE acc.reasons,
         indicators |-> indicators,
         market_data |-> market_data,
         pi_cycle_triggered |-> pi_cycle]

generate_recommendation(cfg, indicators, counts, pi_cycle, risk_score, market_data, pos) ==
    LET acc == recommendation_loop(cfg, recommendation_start(cfg, pi_cycle), indicators)
        sell_btc == remaining_btc(pos) * acc.sell_pct
        sell_usd == sell_btc * market_data.price
        signal_type == classify(cfg, counts, pi_cycle)
    IN  [signal_type |-> signal_type,
         risk_score |-> risk_score,
         sell_percentage |-> acc.sell_pct,
         sell_amount_btc |-> sell_btc,
         sell_amount_usd |-> sell_usd,
         reasons |-> IF signal_type = "HOLD"
                     THEN <<[name |-> "all safe", level |-> "SAFE"]>>
                     ELSE acc.reasons,
         indicators |-> indicators,
         market_data |-> market_data,
         pi_cycle_triggered |-> pi_cycle]

\* pi_cycle is what market_service.check_pi_cycle returned for the series
\* fetched by the call.
DCASellStrategy_evaluate(cfg, market_data, pos, pi_cycle) ==
    LET indicators == evaluate_indicators(cfg, market_data)
        counts == count_signals(indicators)
        risk_score == calculate_risk_score(counts, pi_cycle)
    IN  generate_recommendation(cfg, indicators, counts, pi_cycle, risk_score,
                                market_data, pos)

(***************************************************************************)
(* dca_sell.py: the standalone sell script                                 *)
(*                                                                         *)
(* CONFIG holds the script's own tiers and minimum signal counts; an       *)
(* analysis is a MarketAnalysis (its indicators with their levels, the     *)
(* three counters and the Pi Cycle flag), a position is the dict returned  *)
(* by the script's get_position.                                           *)
(***************************************************************************)
CONFIG ==
    [sell_tiers |-> ("1" :> 10) @@ ("2" :> 15) @@ ("3" :> 25) @@ ("pi_cycle" :> 25),
     min_signals_to_alert |-> 1,
     min_signals_to_sell |-> 2]

\* MarketAnalysis.total_signals
total_signals(analysis) ==
    analysis.signals_warning + analysis.signals_danger + analysis.signals_critical

\* The reasons appended by one "for ind in analysis.indicators: if ind.level == .."
reasons_at(analysis, level) ==
    SelectSeq([i \in 1..Len(analysis.indicators) |->
                  [name |-> analysis.indicators[i].name,
                   level |-> analysis.indicators[i].level]],
              LAMBDA r : r.level = level)

\* Mutant: the danger tier replaces what a more severe tier has set
dca_sell_generate_recommendation_last_tier(analysis, pos) ==
    LET remaining == pos.remaining_btc
        pct_pi == IF analysis.pi_cycle_triggered
                  THEN Max(0, CONFIG.sell_tiers["pi_cycle"]) ELSE 0
        pct_critical == IF analysis.signals_critical > 0
                        THEN Max(pct_pi, CONFIG.sell_tiers["3"]) ELSE pct_pi
        pct_danger == IF analysis.signals_danger > 0
                      THEN sell_tiers_get(CONFIG.sell_tiers, "2", 15)
                      ELSE pct_critical
        takes_warning == analysis.signals_warning > 0 /\ pct_danger = 0
        sell_pct == IF takes_warning
                    THEN sell_tiers_get(CONFIG.sell_tiers, "1", 10) ELSE pct_danger
        reasons == (IF analysis.pi_cycle_triggered
                    THEN <<[name |-> "PI CYCLE TOP", level |-> "PI_CYCLE"]>> ELSE <<>>)
                   \o (IF analysis.signals_critical > 0
                       THEN reasons_at(analysis, "CRITICAL") ELSE <<>>)
                   \o (IF analysis.signals_danger > 0
                       THEN reasons_at(analysis, "DANGER") ELSE <<>>)
                   \o (IF takes_warning THEN reasons_at(analysis, "WARNING") ELSE <<>>)
        sell_btc == remaining * sell_pct
    IN  [should_alert |-> total_signals(analysis) >= CONFIG.min_signals_to_alert
                          \/ analysis.pi_cycle_triggered,
         should_sell |-> total_signals(analysis) >= CONFIG.min_signals_to_sell
                         \/ analysis.pi_cycle_triggered,
         sell_percentage |-> sell_pct,
         sell_amount_btc |-> sell_btc,
         sell_amount_usd |-> sell_btc * analysis.price,
         reasons |-> IF reasons = <<>>
                     THEN <<[name |-> "all safe", level |-> "SAFE"]>> ELSE reasons,
         position_remaining |-> remaining]

\* dca_sell.generate_recommendation: the four "if" blocks in their order; the
\* locals after each block are pct_pi, pct_critical, pct_danger and sell_pct.
dca_sell_generate_recommendation(analysis, pos) ==
    LET remaining == pos.remaining_btc
        pct_pi == IF analysis.pi_cycle_triggered
                  THEN Max(0, CONFIG.sell_tiers["pi_cycle"]) ELSE 0
        pct_critical == IF analysis.signals_critical > 0
                        THEN Max(pct_pi, CONFIG.sell_tiers["3"]) ELSE pct_pi
        pct_danger == IF analysis.signals_danger > 0
                      THEN Max(pct_critical, sell_tiers_get(CONFIG.sell_tiers, "2", 15))
                      ELSE pct_critical
        takes_warning == analysis.signals_warning > 0 /\ pct_danger = 0
        sell_pct == IF takes_warning
                    THEN sell_tiers_get(CONFIG.sell_tiers, "1", 10) ELSE pct_danger
        reasons == (IF analysis.pi_cycle_triggered
                    THEN <<[name |-> "PI CYCLE TOP", level |-> "PI_CYCLE"]>> ELSE <<>>)
                   \o (IF analysis.signals_critical > 0
                       THEN reasons_at(analysis, "CRITICAL") ELSE <<>>)
                   \o (IF analysis.signals_danger > 0
                       THEN reasons_at(analysis, "DANGER") ELSE <<>>)
                   \o (IF takes_warning THEN reasons_at(analysis, "WARNING") ELSE <<>>)
        sell_btc == remaining * sell_pct
    IN  [should_alert |-> total_signals(analysis) >= CONFIG.min_signals_to_alert
                          \/ analysis.pi_cycle_triggered,
         should_sell |-> total_signals(analysis) >= CONFIG.min_signals_to_sell
                         \/ analysis.pi_cycle_triggered,
         sell_percentage |-> sell_pct,
         sell_amount_btc |-> sell_btc,
         sell_amount_usd |-> sell_btc * analysis.price,
         reasons |-> IF reasons = <<>>
                     THEN <<[name |-> "all safe", level |-> "SAFE"]>> ELSE reasons,
         position_remaining |-> remaining]

\* dca_sell.save_signal: the value stored in the column "recommendation"
stored_recommendation(rec) ==
    IF rec.should_sell THEN "SELL"
    ELSE IF rec.should_alert THEN "ALERT" ELSE "HOLD"

(***************************************************************************)
(* market.py: get_historical_prices and check_pi_cycle                     *)
(*                                                                         *)
(* A frame is the sequence of its column "price", one row per day, oldest  *)
(* first; rows are numbered from 1, so that iloc[i] of a frame of n rows   *)
(* is row n + 1 + i for a negative i.  Prices are positive whole dollars,  *)
(* and a mean is compared after multiplying both sides by the window       *)
(* lengths, so every comparison is exact.                                  *)
(***************************************************************************)
pi_cycle_min_rows == 350
ma_111_window == 111
ma_350_window == 350
ma200_window == 200
rsi_period == 14

\* The sum of rows lo .. hi, by halves
RECURSIVE sum_rows(_, _, _)
sum_rows(prices, lo, hi) ==
    IF lo > hi THEN 0
    ELSE IF lo = hi THEN prices[lo]
    ELSE LET mid == (lo + hi) \div 2
         IN  sum_rows(prices, lo, mid) + sum_rows(prices, mid + 1, hi)

\* The sum rolling(window) takes at row i: that of rows i - window + 1 .. i
rolling_sum(prices, window, i) == sum_rows(prices, i - window + 1, i)

\* rolling(window).mean() is NaN on the first window - 1 rows
rolling_defined(prices, window, i) == i >= window /\ i <= Len(prices)

\* ma_111.iloc[..] >= ma_350_x2.iloc[..] at row i; a comparison with NaN is False
ma_111_ge_ma_350_x2(prices, i) ==
    /\ rolling_defined(prices, ma_111_window, i)
    /\ rolling_defined(prices, ma_350_window, i)
    /\ rolling_sum(prices, ma_111_window, i) * ma_350_window
           >= 2 * rolling_sum(prices, ma_350_window, i) * ma_111_window

\* ma_111.iloc[..] < ma_350_x2.iloc[..] at row i
ma_111_lt_ma_350_x2(prices, i) ==
    /\ rolling_defined(prices, ma_111_window, i)
    /\ rolling_defined(prices, ma_350_window, i)
    /\ rolling_sum(prices, ma_111_window, i) * ma_350_window
           < 2 * rolling_sum(prices, ma_350_window, i) * ma_111_window

\* (ma_350_x2.iloc[-1] - ma_111.iloc[-1]) / ma_350_x2.iloc[-1] < 0.02, that is
\* 98 * ma_350_x2 < 100 * ma_111 for a positive ma_350_x2
current_gap_under_2pct(prices) ==
    LET n == Len(prices)
    IN  98 * 2 * rolling_sum(prices, ma_350_window, n) * ma_111_window
            < 100 * rolling_sum(prices, ma_111_window, n) * ma_350_window

\* for i in range(-3, 0): a crossing between iloc[i - 1] and iloc[i]
recent_crossing(prices) ==
    \E i \in {-3, -2, -1} :
        /\ ma_111_ge_ma_350_x2(prices, Len(prices) + 1 + i)
        /\ ma_111_lt_ma_350_x2(prices, Len(prices) + i)

\* Mutant: no early warning, a crossing alone fires
check_pi_cycle_crossing_only(prices) ==
    IF Len(prices) < pi_cycle_min_rows THEN FALSE
    ELSE recent_crossing(prices)

\* Mutant: a frame too short for the averages fires
check_pi_cycle_short_fires(prices) ==
    IF Len(prices) < pi_cycle_min_rows THEN TRUE
    ELSE IF recent_crossing(prices) THEN TRUE
    ELSE current_gap_under_2pct(prices)

check_pi_cycle(prices) ==
    IF Len(prices) < pi_cycle_min_rows THEN FALSE
    ELSE IF recent_crossing(prices) THEN TRUE
    ELSE current_gap_under_2pct(prices)

\* calculate_rsi is NaN where the mean gain and the mean loss of the last
\* rsi_period differences are both 0 (0 / 0): the prices did not move
rsi_defined(prices, i) ==
    /\ i >= rsi_period
    /\ \E k \in (i - rsi_period + 1)..i : k >= 2 /\ prices[k] # prices[k - 1]

\* A row of the frame has every column: ma200 (and so ma7, ma21, ma50 and
\* pct_7d) from row 200 on, and an RSI
row_complete(prices, i) ==
    /\ rolling_defined(prices, ma200_window, i)
    /\ rsi_defined(prices, i)

\* The complete rows among rows lo .. hi, in order, by halves
RECURSIVE dropna(_, _, _)
dropna(prices, lo, hi) ==
    IF lo > hi THEN <<>>
    ELSE IF lo = hi
    THEN (IF row_complete(prices, lo) THEN <<prices[lo]>> ELSE <<>>)
    ELSE LET mid == (lo + hi) \div 2
         IN  dropna(prices, lo, mid) \o dropna(prices, mid + 1, hi)

\* Mutant: the incomplete rows are kept
get_historical_prices_keep_rows(prices) == prices

\* The frame built from the prices the API answered with: df.dropna()
get_historical_prices(prices) == dropna(prices, 1, Len(prices))

(***************************************************************************)
(* market.py: the snapshot of the sell path                                *)
(*                                                                         *)
(* MVRV Z-Score, NUPL and Mayer Multiple are in hundredths, as their       *)
(* thresholds are; a quotient is taken to the hundredth below.             *)
(***************************************************************************)
fear_greed_neutral == 50
mvrv_estimate_min_rows == 200
mvrv_estimate_default == 100
nupl_estimate_min_rows == 100
nupl_estimate_default == 50
mayer_default == 100

\* response: the value the API answered with, None when the request or the
\* parsing of its answer raised
get_fear_greed_index(response) ==
    IF response.some THEN Some(response.val) ELSE Some(fear_greed_neutral)

\* response: CapMVRVCur in hundredths, None when the request raised, was not
\* answered with 200 or held no data; (mvrv - 1.5) / 0.8
get_onchain_metrics(response) ==
    [mvrv_zscore |-> IF response.some
                     THEN Some(((response.val - 150) * 5) \div 4)
                     ELSE None,
     nupl |-> None]

\* The whole number below the square root of x
isqrt(x) == CHOOSE r \in 0..x : r * r <= x /\ x < (r + 1) * (r + 1)

\* df["price"].mean() and .std(), to the whole price below
mean_price(df) == sum_rows(df, 1, Len(df)) \div Len(df)
std_price(df) ==
    LET m == mean_price(df)
        squares == [i \in 1..Len(df) |-> (df[i] - m) * (df[i] - m)]
    IN  isqrt(sum_rows(squares, 1, Len(df)) \div (Len(df) - 1))

estimate_mvrv_from_price(price, df) ==
    IF Len(df) < mvrv_estimate_min_rows THEN mvrv_estimate_default
    ELSE LET z_score == IF std_price(df) > 0
                        THEN (100 * (price - mean_price(df))) \div std_price(df)
                        ELSE 0
         IN  Max(0, Min(1000, (z_score * 3) \div 2 + 200))

\* (df["price"] < price).sum()
days_in_profit(price, df) ==
    sum_rows([i \in 1..Len(df) |-> IF df[i] < price THEN 1 ELSE 0], 1, Len(df))

estimate_nupl(price, df) ==
    IF Len(df) < nupl_estimate_min_rows THEN nupl_estimate_default
    ELSE Max(-100, Min(100, (150 * days_in_profit(price, df)) \div Len(df) - 75))

calculate_mayer_multiple(price, ma_200_sum) ==
    IF ma_200_sum > 0 THEN (100 * price * ma200_window) \div ma_200_sum
    ELSE mayer_default

\* The row historical.iloc[-1] is of: the last complete row of the answer
latest_row(prices) ==
    CHOOSE i \in 1..Len(prices) :
        /\ row_complete(prices, i)
        /\ \A j \in (i + 1)..Len(prices) : ~row_complete(prices, j)

\* calculate_rsi at row i: 100 - 100 / (1 + gain / loss) over the last
\* rsi_period differences, that is 100 * gain / (gain + loss)
calculate_rsi(prices, i) ==
    LET days == {k \in (i - rsi_period + 1)..i : k >= 2}
        delta == [k \in 1..Len(prices) |-> IF k \in days THEN prices[k] - prices[k - 1] ELSE 0]
        gain == sum_rows([k \in 1..Len(prices) |-> Max(delta[k], 0)], 1, Len(prices))
        loss == sum_rows([k \in 1..Len(prices) |-> Max(-delta[k], 0)], 1, Len(prices))
    IN  (100 * gain) \div (gain + loss)

\* historical.iloc[-1] raises IndexError on a frame without rows
has_latest_row(prices) == get_historical_prices(prices) # <<>>

\* get_full_market_data(for_sell=True): answers.price is the current price,
\* prices the daily prices, answers.mvrv and answers.fear_greed the answers
\* of the on-chain and the sentiment API
get_full_market_data(answers, prices) ==
    LET historical == get_historical_prices(prices)
        latest == latest_row(prices)
        onchain == get_onchain_metrics(answers.mvrv)
    IN  [price |-> answers.price,
         rsi |-> calculate_rsi(prices, latest),
         mvrv_zscore |->
             IF onchain.mvrv_zscore.some /\ onchain.mvrv_zscore.val # 0
             THEN onchain.mvrv_zscore
             ELSE Some(estimate_mvrv_from_price(answers.price, historical)),
         nupl |-> Some(estimate_nupl(answers.price, historical)),
         mayer_multiple |->
             Some(calculate_mayer_multiple(answers.price,
                                           rolling_sum(prices, ma200_window, latest))),
         fear_greed |-> get_fear_greed_index(answers.fear_greed)]

(***************************************************************************)
(* database.py: SellRepository                                             *)
(*                                                                         *)
(* Each method runs inside "with self.connection()": its statements are    *)
(* one transaction, committed when the block ends, so a method is one      *)
(* step.  A table is the set (sell_executions: the sequence) of its rows;  *)
(* a row holds the columns the repository reads or writes, timestamps      *)
(* left out.                                                               *)
(***************************************************************************)
MaxSales == 2
MaxSignals == 2

\* Arguments of record_sale and reset_position (the CLI passes float(argv)
\* unchecked): a negative sale, and a sale within the default holdings, two
\* of which exceed them.
SaleAmounts == {-1, 3}
SalePrices == {3}
Exchanges == {"manual"}
SignalIds == {None} \cup {Some(i) : i \in 0..MaxSignals}
ResetArgs == {[total_btc |-> 10, cost_basis |-> 30000]}

\* The three tables of the sell database
Db(position_table, signals_table, executions_table) ==
    [position |-> position_table, sell_signals |-> signals_table,
     sell_executions |-> executions_table]

EmptyDb == Db({}, {}, <<>>)

PositionRow(total, sold, cost) ==
    [id |-> 1, total_btc |-> total, sold_btc |-> sold, cost_basis |-> cost]

\* Position(total_btc=row["total_btc"], sold_btc=row["sold_btc"], cost_basis=row["cost_basis"])
PositionOf(row) ==
    [total_btc |-> row.total_btc, sold_btc |-> row.sold_btc,
     cost_basis |-> row.cost_basis]

\* SELECT * FROM position WHERE id = 1
position_rows == {r \in position : r.id = 1}

Op(name, args, ret) == [op |-> name, args |-> args, ret |-> ret]

\* Mutant: the configured defaults are returned whatever the stored row holds
get_or_create_position_defaults ==
    /\ position' = IF position_rows = {}
                   THEN position \cup
                        {PositionRow(sell_config.total_btc, 0, sell_config.cost_basis_usd)}
                   ELSE position
    /\ last_op' = Op("get_or_create_position", <<>>,
                     <<[total_btc |-> sell_config.total_btc, sold_btc |-> 0,
                        cost_basis |-> sell_config.cost_basis_usd]>>)
    /\ UNCHANGED <<sell_signals, sell_executions, signal_seq>>

get_or_create_position ==
    /\ IF position_rows = {}
       THEN /\ position' = position \cup
                   {PositionRow(sell_config.total_btc, 0, sell_config.cost_basis_usd)}
            /\ last_op' = Op("get_or_create_position", <<>>,
                             <<[total_btc |-> sell_config.total_btc, sold_btc |-> 0,
                                cost_basis |-> sell_config.cost_basis_usd]>>)
       ELSE /\ position' = position
            /\ last_op' = Op("get_or_create_position", <<>>,
                             <<PositionOf(CHOOSE r \in position_rows : TRUE)>>)
    /\ UNCHANGED <<sell_signals, sell_executions, signal_seq>>

\* INSERT INTO sell_signals: the id is AUTOINCREMENT, the flags default to 0
save_signal(signal) ==
    /\ signal_seq < MaxSignals
    /\ signal_seq' = signal_seq + 1
    /\ sell_signals' = sell_signals \cup
           {[id |-> signal_seq + 1, signal_type |-> signal.signal_type,
             notification_sent |-> FALSE, executed |-> FALSE]}
    /\ last_op' = Op("save_signal", <<signal.signal_type>>, <<signal_seq + 1>>)
    /\ UNCHANGED <<position, sell_executions>>

mark_notified(signal_id) ==
    /\ sell_signals' = {IF r.id = signal_id
                        THEN [r EXCEPT !.notification_sent = TRUE] ELSE r
                        : r \in sell_signals}
    /\ last_op' = Op("mark_notified", <<signal_id>>, <<>>)
    /\ UNCHANGED <<position, sell_executions, signal_seq>>

\* "if signal_id:" is false for None and for 0
signal_id_truthy(signal_id) == signal_id.some /\ signal_id.val # 0

\* Mutant: every pending signal is marked executed, whatever signal_id is
record_sale_marks_all(btc_amount, price, exchange, signal_id) ==
    LET usd_received == btc_amount * price
    IN  /\ Len(sell_executions) < MaxSales
        /\ sell_executions' = Append(sell_executions,
               [signal_id |-> signal_id, btc_sold |-> btc_amount,
                price_at_sale |-> price, usd_received |-> usd_received,
                exchange |-> exchange])
        /\ position' = {IF r.id = 1
                        THEN [r EXCEPT !.sold_btc = r.sold_btc + btc_amount] ELSE r
                        : r \in position}
        /\ sell_signals' = {[r EXCEPT !.executed = TRUE] : r \in sell_signals}
        /\ last_op' = Op("record_sale", <<btc_amount, price, exchange, signal_id>>,
                         <<usd_received>>)
        /\ UNCHANGED signal_seq

\* Mutant: the sale is taken off total_btc as well
record_sale_lowers_total(btc_amount, price, exchange, signal_id) ==
    LET usd_received == btc_amount * price
    IN  /\ Len(sell_executions) < MaxSales
        /\ sell_executions' = Append(sell_executions,
               [signal_id |-> signal_id, btc_sold |-> btc_amount,
                price_at_sale |-> price, usd_received |-> usd_received,
                exchange |-> exchange])
        /\ position' = {IF r.id = 1
                        THEN [r EXCEPT !.sold_btc = r.sold_btc + btc_amount,
                                       !.total_btc = r.total_btc - btc_amount]
                        ELSE r
                        : r \in position}
        /\ sell_signals' =
               IF signal_id_truthy(signal_id)
               THEN {IF r.id = signal_id.val THEN [r EXCEPT !.executed = TRUE] ELSE r
                     : r \in sell_signals}
               ELSE sell_signals
        /\ last_op' = Op("record_sale", <<btc_amount, price, exchange, signal_id>>,
                         <<usd_received>>)
        /\ UNCHANGED signal_seq

record_sale(btc_amount, price, exchange, signal_id) ==
    LET usd_received == btc_amount * price
    IN  /\ Len(sell_executions) < MaxSales
        /\ sell_executions' = Append(sell_executions,
               [signal_id |-> signal_id, btc_sold |-> btc_amount,
                price_at_sale |-> price, usd_received |-> usd_received,
                exchange |-> exchange])
        /\ position' = {IF r.id = 1
                        THEN [r EXCEPT !.sold_btc = r.sold_btc + btc_amount] ELSE r
                        : r \in position}
        /\ sell_signals' =
               IF signal_id_truthy(signal_id)
               THEN {IF r.id = signal_id.val THEN [r EXCEPT !.executed = TRUE] ELSE r
                     : r \in sell_signals}
               ELSE sell_signals
        /\ last_op' = Op("record_sale", <<btc_amount, price, exchange, signal_id>>,
                         <<usd_received>>)
        /\ UNCHANGED signal_seq

\* Mutant: the signal history survives the reset
reset_position_keeps_signals(total, cost) ==
    /\ sell_executions' = <<>>
    /\ position' = {PositionRow(total, 0, cost)}
    /\ last_op' = Op("reset_position", <<total, cost>>, <<>>)
    /\ UNCHANGED <<sell_signals, signal_seq>>

\* DELETE leaves sqlite_sequence as it is: ids are not reused
reset_position(total, cost) ==
    /\ sell_executions' = <<>>
    /\ sell_signals' = {}
    /\ position' = {PositionRow(total, 0, cost)}
    /\ last_op' = Op("reset_position", <<total, cost>>, <<>>)
    /\ UNCHANGED signal_seq

(***************************************************************************)
(* database.py: BaseRepository.connection, one connection per call         *)
(*                                                                         *)
(* sqlite3.connect(self.db_path) is called with the library's defaults, so *)
(* callers in different processes run their statements one by one against  *)
(* the same file.  The first INSERT, UPDATE or DELETE of a connection      *)
(* opens its transaction and takes the write lock of the file; a           *)
(* connection that finds the lock taken waits, and raises "database is     *)
(* locked" when the wait times out.  The statements of a transaction are   *)
(* seen by the other connections when conn.commit() runs, all at once; an  *)
(* exception leaves the block through conn.close(), which rolls them back. *)
(* A SELECT outside a transaction reads what has been committed.           *)
(***************************************************************************)
NumCallers == 2
Callers == 1..NumCallers

Call(name, args) == [op |-> name, args |-> args]

committed_db == Db(position, sell_signals, sell_executions)

\* Mutant: a connection writes without taking the lock of the file
write_lock_ignored == TRUE

write_lock_free == db_lock = 0

\* The first statement of each method
first_statement(call) ==
    CASE call.op = "record_sale" -> "insert_execution"
      [] call.op = "reset_position" -> "delete_executions"
      [] OTHER -> "select_position"

\* The first write statement of each method: the one that opens the transaction
opens_transaction(pc) == pc \in {"insert_execution", "delete_executions", "insert_position_default"}

\* INSERT INTO sell_executions (signal_id, timestamp, btc_sold, price_at_sale, usd_received, exchange)
insert_execution(db, btc_amount, price, exchange, signal_id) ==
    [db EXCEPT !.sell_executions = Append(@,
        [signal_id |-> signal_id, btc_sold |-> btc_amount,
         price_at_sale |-> price, usd_received |-> btc_amount * price,
         exchange |-> exchange])]

\* UPDATE position SET sold_btc = sold_btc + ? WHERE id = 1
update_sold_btc(db, btc_amount) ==
    [db EXCEPT !.position = {IF r.id = 1
                             THEN [r EXCEPT !.sold_btc = r.sold_btc + btc_amount]
                             ELSE r
                             : r \in @}]

\* UPDATE sell_signals SET executed = 1 WHERE id = ?
update_executed(db, signal_id) ==
    [db EXCEPT !.sell_signals = {IF r.id = signal_id.val
                                 THEN [r EXCEPT !.executed = TRUE] ELSE r
                                 : r \in @}]

\* INSERT INTO position (id, total_btc, sold_btc, cost_basis, ...) VALUES (1, ?, 0, ?, ...)
insert_position(db, total, cost) ==
    [db EXCEPT !.position = @ \cup {PositionRow(total, 0, cost)}]

\* The statement opens the transaction of caller p: db is what the
\* transaction holds after it
begin_transaction(p, pc, db) ==
    /\ write_lock_free
    /\ db_lock' = p
    /\ callers' = [callers EXCEPT ![p].pc = pc, ![p].txn = db]
    /\ UNCHANGED <<position, sell_signals, sell_executions>>

\* A later statement of the transaction of caller p
next_statement(p, pc, db) ==
    /\ callers' = [callers EXCEPT ![p].pc = pc, ![p].txn = db]
    /\ UNCHANGED <<position, sell_signals, sell_executions, db_lock>>

raise_error(p) ==
    /\ callers' = [callers EXCEPT ![p].pc = "raised", ![p].txn = EmptyDb,
                                  ![p].raised_at = callers[p].pc]
    /\ UNCHANGED <<position, sell_signals, sell_executions, db_lock>>

\* The caller has run a write statement and not yet left the with block
in_transaction(p) ==
    callers[p].pc \in {"update_position", "update_signal", "delete_signals",
                       "delete_position", "insert_position", "commit"}

\* Mutant: the block commits on its way out, exception or not
statement_raises_and_commits(p) ==
    /\ callers[p].pc \notin {"returned", "raised"}
    /\ callers' = [callers EXCEPT ![p].pc = "raised", ![p].txn = EmptyDb,
                                  ![p].raised_at = callers[p].pc]
    /\ position' = IF in_transaction(p) THEN callers[p].txn.position ELSE position
    /\ sell_signals' = IF in_transaction(p) THEN callers[p].txn.sell_signals
                       ELSE sell_signals
    /\ sell_executions' = IF in_transaction(p) THEN callers[p].txn.sell_executions
                          ELSE sell_executions
    /\ db_lock' = IF in_transaction(p) THEN 0 ELSE db_lock

\* The statement to come, or conn.commit(), raises: the exception leaves the
\* with block past conn.commit(), and conn.close() in the finally clause
\* drops the open transaction with what it wrote
statement_raises(p) ==
    /\ callers[p].pc \notin {"returned", "raised"}
    /\ callers' = [callers EXCEPT ![p].pc = "raised", ![p].txn = EmptyDb,
                                  ![p].raised_at = callers[p].pc]
    /\ db_lock' = IF in_transaction(p) THEN 0 ELSE db_lock
    /\ UNCHANGED <<position, sell_signals, sell_executions>>

\* record_sale, statement 1
record_sale_insert(p) ==
    LET c == callers[p]
    IN  /\ c.pc = "insert_execution"
        /\ begin_transaction(p, "update_position",
               insert_execution(committed_db, c.call.args[1], c.call.args[2],
                                c.call.args[3], c.call.args[4]))

\* record_sale, statement 2
record_sale_update_position(p) ==
    LET c == callers[p]
    IN  /\ c.pc = "update_position"
        /\ next_statement(p,
               IF signal_id_truthy(c.call.args[4]) THEN "update_signal" ELSE "commit",
               update_sold_btc(c.txn, c.call.args[1]))

\* record_sale, statement 3, under "if signal_id:"
record_sale_update_signal(p) ==
    LET c == callers[p]
    IN  /\ c.pc = "update_signal"
        /\ next_statement(p, "commit", update_executed(c.txn, c.call.args[4]))

\* reset_position, statement 1: DELETE FROM sell_executions
reset_position_delete_executions(p) ==
    LET c == callers[p]
    IN  /\ c.pc = "delete_executions"
        /\ begin_transaction(p, "delete_signals",
                             [committed_db EXCEPT !.sell_executions = <<>>])

\* reset_position, statements 2 to 4
reset_position_statement(p) ==
    LET c == callers[p]
    IN  \/ /\ c.pc = "delete_signals"
           /\ next_statement(p, "delete_position", [c.txn EXCEPT !.sell_signals = {}])
        \/ /\ c.pc = "delete_position"
           /\ next_statement(p, "insert_position", [c.txn EXCEPT !.position = {}])
        \/ /\ c.pc = "insert_position"
           /\ next_statement(p, "commit",
                             insert_position(c.txn, c.call.args[1], c.call.args[2]))

\* get_or_create_position: SELECT * FROM position WHERE id = 1, then
\* "if not row"
select_position(p) ==
    LET c == callers[p]
    IN  /\ c.pc = "select_position"
        /\ callers' = [callers EXCEPT
               ![p].pc = IF position_rows = {} THEN "insert_position_default"
                         ELSE "returned",
               ![p].ret = IF position_rows = {} THEN <<>>
                          ELSE <<PositionOf(CHOOSE r \in position_rows : TRUE)>>]
        /\ UNCHANGED <<position, sell_signals, sell_executions, db_lock>>

\* get_or_create_position: the INSERT of the configured defaults; id is the
\* primary key, so the statement raises when a row has been committed since
\* the SELECT
insert_position_default(p) ==
    LET c == callers[p]
    IN  /\ c.pc = "insert_position_default"
        /\ IF position_rows = {}
           THEN /\ begin_transaction(p, "commit",
                       insert_position(committed_db, sell_config.total_btc,
                                       sell_config.cost_basis_usd))
           ELSE /\ write_lock_free
                /\ raise_error(p)

\* conn.commit() and the return of the method
commit(p) ==
    LET c == callers[p]
    IN  /\ c.pc = "commit"
        /\ position' = c.txn.position
        /\ sell_signals' = c.txn.sell_signals
        /\ sell_executions' = c.txn.sell_executions
        /\ db_lock' = 0
        /\ callers' = [callers EXCEPT
               ![p].pc = "returned",
               ![p].txn = EmptyDb,
               ![p].ret = CASE c.call.op = "record_sale" ->
                                   <<c.call.args[1] * c.call.args[2]>>
                            [] c.call.op = "get_or_create_position" ->
                                   <<[total_btc |-> sell_config.total_btc, sold_btc |-> 0,
                                      cost_basis |-> sell_config.cost_basis_usd]>>
                            [] OTHER -> <<>>]

\* sqlite3.OperationalError "database is locked": the wait for the lock
\* another connection holds timed out
database_is_locked(p) ==
    /\ opens_transaction(callers[p].pc)
    /\ ~write_lock_free
    /\ raise_error(p)

(***************************************************************************)
(* database.py: construction of a repository; dca_utils.py: the commands   *)
(*                                                                         *)
(* A repository object is its attribute db_path and what __init__ raised   *)
(* ("": it returned, and _init_tables created the tables).  A command of   *)
(* dca_utils builds its repository with no argument and calls one method;  *)
(* it is one step, recorded in commands with the repository it built.      *)
(***************************************************************************)
MaxCommands == 3

\* config.db_path: project_dir / "dca.db"
config_db_path == "dca.db"

\* sqlite3.connect(database), as _init_tables reaches it through connection():
\* None is not a path
sqlite3_connect(db_path) ==
    IF db_path = None THEN "TypeError" ELSE ""

\* self.db_path = db_path; self._init_tables()
BaseRepository_init(db_path) ==
    [db_path |-> db_path,
     raised |-> sqlite3_connect(db_path),
     tables_created |-> sqlite3_connect(db_path) = ""]

\* super().__init__(db_path or config.db_path)
BuyRepository_init(db_path) ==
    BaseRepository_init(IF db_path # None THEN db_path ELSE Some(config_db_path))

\* super().__init__(db_path)
SellRepository_init(db_path) ==
    BaseRepository_init(db_path)

ledger_untouched ==
    UNCHANGED <<position, sell_signals, sell_executions, signal_seq, last_op>>

command_ends(name, args, repo, outcome) ==
    commands' = Append(commands, [name |-> name, args |-> args, repo |-> repo,
                                  outcome |-> outcome])

\* buy_history: BuyRepository() and a SELECT
buy_history ==
    LET repo == BuyRepository_init(None)
    IN  /\ command_ends("buy_history", <<>>, <<repo>>,
                        IF repo.raised # "" THEN repo.raised ELSE "ok")
        /\ ledger_untouched

sell_position ==
    LET repo == SellRepository_init(None)
    IN  IF repo.raised # ""
        THEN /\ command_ends("sell_position", <<>>, <<repo>>, repo.raised)
             /\ ledger_untouched
        ELSE /\ get_or_create_position
             /\ command_ends("sell_position", <<>>, <<repo>>, "ok")

\* sell_signals: SellRepository() and a SELECT
sell_signals_listing ==
    LET repo == SellRepository_init(None)
    IN  /\ command_ends("sell_signals", <<>>, <<repo>>,
                        IF repo.raised # "" THEN repo.raised ELSE "ok")
        /\ ledger_untouched

sell_record(btc, price, exchange) ==
    LET repo == SellRepository_init(None)
    IN  IF repo.raised # ""
        THEN /\ command_ends("sell_record", <<btc, price>>, <<repo>>, repo.raised)
             /\ ledger_untouched
        ELSE /\ record_sale(btc, price, exchange, None)
             /\ command_ends("sell_record", <<btc, price>>, <<repo>>, "ok")

\* confirm is what the operator types at the prompt
sell_reset(total, cost, confirm) ==
    IF confirm # "yes"
    THEN /\ command_ends("sell_reset", <<total, cost>>, <<>>, "cancelled")
         /\ ledger_untouched
    ELSE LET repo == SellRepository_init(None)
         IN  IF repo.raised # ""
             THEN /\ command_ends("sell_reset", <<total, cost>>, <<repo>>, repo.raised)
                  /\ ledger_untouched
             ELSE /\ reset_position(total, cost)
                  /\ command_ends("sell_reset", <<total, cost>>, <<repo>>, "ok")

\* dashboard: the buy part and the sell part each sit in "try: .. except
\* Exception: print(..)"; the repository recorded is that of the sell part
dashboard ==
    LET buy_repo == BuyRepository_init(None)
        sell_repo == SellRepository_init(None)
    IN  IF sell_repo.raised # ""
        THEN /\ command_ends("dashboard", <<>>, <<sell_repo>>, "no sell data")
             /\ ledger_untouched
        ELSE /\ get_or_create_position
             /\ command_ends("dashboard", <<>>, <<sell_repo>>,
                             IF buy_repo.raised # "" THEN "no buy data" ELSE "ok")

(***************************************************************************)
(* dca_buy.py: main                                                        *)
(*                                                                         *)
(* A run is a sequence of steps, one per call main makes; buy_run.pc is    *)
(* the call to come.  market_service.get_full_market_data either raises    *)
(* or returns a MarketData, and notifier.notify_buy_signal returns whether *)
(* the message was sent: main tells these outcomes apart and nothing more. *)
(***************************************************************************)
MaxRuns == 2

\* Mutant: the notification is sent whatever the mode and the signal
attempts_notification_always(dry_run, signal) == TRUE

\* "if dry_run: ... elif signal.signal_type != SignalType.SKIP:"
attempts_notification(dry_run, signal) ==
    ~dry_run /\ signal.signal_type # "SKIP"

\* BuyRepository.save_price_snapshot: INSERT INTO price_history
save_price_snapshot(data) ==
    price_history' = Append(price_history,
                            [price |-> data.price, ma7 |-> data.ma7, rsi |-> data.rsi])

\* BuyRepository.save_signal: INSERT INTO signals; the id is AUTOINCREMENT
\* and no row is ever deleted, the flags default to 0
buy_save_signal(signal) ==
    buy_signals' = Append(buy_signals,
        [id |-> Len(buy_signals) + 1, signal_type |-> signal.signal_type,
         multiplier |-> signal.multiplier,
         suggested_amount |-> signal.suggested_amount,
         price |-> signal.market_data.price,
         notification_sent |-> FALSE, executed |-> FALSE])

\* BuyRepository.mark_notified: UPDATE signals SET notification_sent = 1 WHERE id = ?
buy_mark_notified(signal_id) ==
    buy_signals' = [i \in 1..Len(buy_signals) |->
                       IF buy_signals[i].id = signal_id
                       THEN [buy_signals[i] EXCEPT !.notification_sent = TRUE]
                       ELSE buy_signals[i]]

\* "return 0" and "return 1"
main_returns(run, code) == [run EXCEPT !.pc = "returned", !.exit = <<code>>]

(***************************************************************************)
(* Inputs of the sell path                                                 *)
(***************************************************************************)
\* Each metric takes a value below its warning threshold and values on its
\* thresholds; the optional ones may be absent.
MvrvValues == {None, Some(299), Some(300), Some(500), Some(700)}
NuplValues == {None, Some(49), Some(50), Some(65)}
SellRsiValues == {69, 70, 80, 88}
MayerValues == {None, Some(149), Some(240)}
FearGreedValues == {None, Some(64), Some(65), Some(85)}
SellPriceValues == {2}

SellMarketData ==
    [price : SellPriceValues, rsi : SellRsiValues, mvrv_zscore : MvrvValues,
     nupl : NuplValues, mayer_multiple : MayerValues, fear_greed : FearGreedValues]

SellPositions ==
    {[total_btc |-> total_btc, sold_btc |-> s, cost_basis |-> cost_basis_usd]
     : s \in {0, 2}}

\* market_data and position are the arguments of DCASellStrategy.evaluate;
\* pi_cycle is what market_service.check_pi_cycle returns inside it.
SellArgs ==
    [market_data : SellMarketData, position : SellPositions, pi_cycle : BOOLEAN]

DefaultSellArgs ==
    [market_data |-> [price |-> 2, rsi |-> 69, mvrv_zscore |-> None, nupl |-> None,
                      mayer_multiple |-> None, fear_greed |-> None],
     position |-> [total_btc |-> total_btc, sold_btc |-> 0,
                   cost_basis |-> cost_basis_usd],
     pi_cycle |-> FALSE]

(***************************************************************************)
(* Inputs of the Pi Cycle detector                                         *)
(***************************************************************************)
Repeat(price, days) == [i \in 1..days |-> price]

\* A series of n days: a base price of 1, then one day at high, plateau_days
\* days at plateau, one day at spike and tail_days days back at 1 (the base
\* price alone when n is too small for that)
PriceSeries(n, high, plateau, plateau_days, spike, tail_days) ==
    IF n < plateau_days + tail_days + 2 THEN Repeat(1, n)
    ELSE Repeat(1, n - plateau_days - tail_days - 2) \o <<high>>
         \o Repeat(plateau, plateau_days) \o <<spike>> \o Repeat(1, tail_days)

\* No price, too few for the detector, 350 to 353 days (the 350-day average
\* is missing on days of the 3-day window), and more; the API answers a
\* request for days = 365 with at most 366 daily prices
SeriesLengths == {0, 3, 349, 350, 351, 353, 354, 356}

\* The spike sets the crossing off tail_days days before the last one; the
\* high day leaves the 111-day window in the tail and opens the gap again
HistoricalSeries ==
    {PriceSeries(n, high, plateau, plateau_days, spike, tail_days) :
        n \in SeriesLengths, high \in {1, 20}, plateau \in {1, 2},
        plateau_days \in {108, 109}, spike \in {1, 200, 400}, tail_days \in 0..3}

\* Snapshots of the runs that fetch the series: no indicator triggered, and
\* the RSI on its warning threshold
HistorySellArgs ==
    {[DefaultSellArgs EXCEPT !.market_data.rsi = rsi] : rsi \in {69, 70}}

\* Inputs of the runs that evaluate twice: the series the API may answer
\* with from one call to the next, and the buy snapshots
RerunSeries ==
    {PriceSeries(n, 20, 2, 108, 200, 2) : n \in {349, 353, 356}}
    \cup {PriceSeries(n, 1, 1, 108, 1, 0) : n \in {349, 353, 356}}

RerunBuyMarketData ==
    {md \in BuyMarketData : md.price = 96 /\ md.pct_change_7d \in {-30, 10}}

(***************************************************************************)
(* Specifications                                                          *)
(***************************************************************************)
MaxThreshold == 4

\* Nothing was asked of the APIs
NoAnswer == [price |-> 0, fear_greed |-> None, mvrv |-> None]

\* No run of dca_buy.main was started
NoBuyRun ==
    [runs |-> 0, dry_run |-> FALSE, pc |-> "idle", market_data |-> <<>>,
     signal_id |-> 0, sent |-> <<>>, exit |-> <<>>,
     history_before |-> 0, signals_before |-> 0]

InitBuyRun ==
    /\ buy_run = NoBuyRun
    /\ price_history = <<>>
    /\ buy_signals = <<>>

InitRun ==
    /\ provider = NoAnswer
    /\ full_market_data = <<>>
    /\ InitBuyRun
    /\ commands = <<>>

InitRest ==
    /\ buy_signal = <<>>
    /\ indicator = <<>>
    /\ sell_signal = <<>>
    /\ historical_df = <<>>
    /\ pi_cycle_result = <<>>
    /\ position = {}
    /\ sell_signals = {}
    /\ sell_executions = <<>>
    /\ signal_seq = 0
    /\ last_op = Op("init", <<>>, <<>>)
    /\ db_lock = 0
    /\ callers = <<>>
    /\ InitRun

\* The buy path: strategy.evaluate(market_data) under a buy configuration
InitBuy ==
    /\ buy_config \in BuyConfigs
    /\ sell_config = DefaultSellConfig
    /\ sell_args = DefaultSellArgs
    /\ price_series = <<>>
    /\ db_initial = EmptyDb
    /\ InitRest

EvaluateBuy ==
    /\ \E market_data \in BuyMarketData :
           buy_signal' = <<DCABuyStrategy_evaluate(buy_config, market_data)>>
    /\ UNCHANGED <<buy_config, indicator, sell_vars, ledger_vars>>

NextBuy == EvaluateBuy

SpecBuy == InitBuy /\ [][NextBuy]_vars

\* _create_indicator on any value and thresholds
InitIndicator ==
    /\ buy_config = DefaultBuyConfig
    /\ sell_config = DefaultSellConfig
    /\ sell_args = DefaultSellArgs
    /\ price_series = <<>>
    /\ db_initial = EmptyDb
    /\ InitRest

CreateIndicator ==
    /\ \E value \in -1..(MaxThreshold + 1) :
       \E warn \in 0..MaxThreshold, danger \in 0..MaxThreshold,
          critical \in 0..MaxThreshold :
           indicator' = <<create_indicator("metric", value, warn, danger, critical)>>
    /\ UNCHANGED <<buy_vars, sell_vars, ledger_vars>>

NextIndicator == CreateIndicator

SpecIndicator == InitIndicator /\ [][NextIndicator]_vars

\* The sell path: one run fetches a snapshot and a position and calls
\* strategy.evaluate(market_data, position) once, under a sell configuration.
\* The outcome of the Pi Cycle detector is an input here (sell_args.pi_cycle);
\* SpecPiCycle computes it from a price series.
InitSell ==
    /\ buy_config = DefaultBuyConfig
    /\ sell_config \in SellConfigs
    /\ sell_args \in SellArgs
    /\ price_series = <<>>
    /\ db_initial = EmptyDb
    /\ InitRest

EvaluateSell ==
    /\ sell_signal = <<>>
    /\ sell_signal' = <<DCASellStrategy_evaluate(sell_config, sell_args.market_data,
                                                 sell_args.position, sell_args.pi_cycle)>>
    /\ UNCHANGED <<buy_vars, indicator, sell_config, sell_args, history_vars,
                   ledger_vars>>

NextSell == EvaluateSell

SpecSell == InitSell /\ [][NextSell]_vars

\* The Pi Cycle detector on a price series, called on the series as fetched
\* (dca_sell.analyze_market) or inside DCASellStrategy.evaluate on the frame
\* get_historical_prices builds from it
InitPiCycle ==
    /\ buy_config = DefaultBuyConfig
    /\ sell_config = DefaultSellConfig
    /\ sell_args \in HistorySellArgs
    /\ price_series \in HistoricalSeries
    /\ db_initial = EmptyDb
    /\ InitRest

CheckPiCycle ==
    /\ pi_cycle_result = <<>>
    /\ historical_df' = price_series
    /\ pi_cycle_result' = <<check_pi_cycle(price_series)>>
    /\ UNCHANGED <<buy_vars, indicator, sell_config, sell_signal, sell_args,
                   price_series, ledger_vars>>

\* DCASellStrategy.evaluate with its two calls of market_service
EvaluateSellFetched ==
    /\ pi_cycle_result = <<>>
    /\ sell_signal = <<>>
    /\ LET df == get_historical_prices(price_series)
           pi == check_pi_cycle(df)
       IN  /\ historical_df' = df
           /\ pi_cycle_result' = <<pi>>
           /\ sell_signal' = <<DCASellStrategy_evaluate(sell_config, sell_args.market_data,
                                                        sell_args.position, pi)>>
    /\ UNCHANGED <<buy_vars, indicator, sell_config, sell_args, price_series,
                   ledger_vars>>

NextPiCycle ==
    \/ CheckPiCycle
    \/ EvaluateSellFetched

SpecPiCycle == InitPiCycle /\ [][NextPiCycle]_vars

\* Each strategy evaluated twice on the same arguments and configuration,
\* while what is not among them changes: the API answers the second fetch
\* with another series, the other strategy runs in between, and the frame
\* of the first evaluation is still in self._historical_df
InitRerun ==
    /\ buy_config \in BuyConfigs
    /\ sell_config = DefaultSellConfig
    /\ sell_args \in HistorySellArgs
    /\ price_series \in RerunSeries
    /\ db_initial = EmptyDb
    /\ InitRest

RerunBuy ==
    /\ Len(buy_signal) < 2
    /\ \E market_data \in RerunBuyMarketData :
           /\ buy_signal # <<>> => market_data = buy_signal[1].market_data
           /\ buy_signal' = Append(buy_signal,
                                   DCABuyStrategy_evaluate(buy_config, market_data))
    /\ UNCHANGED <<buy_config, indicator, sell_vars, ledger_vars>>

RerunSell ==
    /\ Len(sell_signal) < 2
    /\ LET df == get_historical_prices(price_series)
           pi == check_pi_cycle(df)
       IN  /\ historical_df' = df
           /\ pi_cycle_result' = <<pi>>
           /\ sell_signal' = Append(sell_signal,
                                    DCASellStrategy_evaluate(sell_config,
                                        sell_args.market_data, sell_args.position, pi))
    /\ UNCHANGED <<buy_vars, indicator, sell_config, sell_args, price_series,
                   ledger_vars>>

\* The market moves on: the next request is answered with another series
MarketMoves ==
    /\ \E answer \in RerunSeries : answer # price_series /\ price_series' = answer
    /\ UNCHANGED <<buy_vars, indicator, sell_config, sell_signal, sell_args,
                   historical_df, pi_cycle_result, ledger_vars>>

NextRerun ==
    \/ RerunBuy
    \/ RerunSell
    \/ MarketMoves

SpecRerun == InitRerun /\ [][NextRerun]_vars

\* The sell path: get_full_market_data(for_sell=True), then
\* DCASellStrategy.evaluate on the snapshot it built
\* Series of 3 days, of 353 days, and of the 365 and 366 days the API answers
\* a request for days = 365 with
SnapshotSeries ==
    {PriceSeries(n, 20, 2, 108, spike, tail_days) :
        n \in {3, 353, 365, 366}, spike \in {1, 200}, tail_days \in {0, 2}}

\* Current prices; the sentiment index (None: the request failed); CapMVRVCur
\* in hundredths (None: the request failed or returned nothing; 150: a
\* Z-Score of 0)
ProviderAnswers ==
    [price : {1, 2, 30},
     fear_greed : {None, Some(49), Some(65), Some(85)},
     mvrv : {None, Some(150), Some(230), Some(400), Some(710)}]

InitSnapshot ==
    /\ buy_config = DefaultBuyConfig
    /\ buy_signal = <<>>
    /\ indicator = <<>>
    /\ sell_config = DefaultSellConfig
    /\ sell_args = DefaultSellArgs
    /\ sell_signal = <<>>
    /\ price_series \in SnapshotSeries
    /\ historical_df = <<>>
    /\ pi_cycle_result = <<>>
    /\ position = {}
    /\ sell_signals = {}
    /\ sell_executions = <<>>
    /\ signal_seq = 0
    /\ last_op = Op("init", <<>>, <<>>)
    /\ db_initial = EmptyDb
    /\ db_lock = 0
    /\ callers = <<>>
    /\ provider \in ProviderAnswers
    /\ full_market_data = <<>>
    /\ InitBuyRun
    /\ commands = <<>>

GetFullMarketData ==
    /\ full_market_data = <<>>
    /\ has_latest_row(price_series)
    /\ full_market_data' = <<get_full_market_data(provider, price_series)>>
    /\ UNCHANGED <<buy_vars, indicator, sell_vars, position, sell_signals,
                   sell_executions, signal_seq, last_op, connection_vars, provider,
                   buy_run_vars, command_vars>>

\* The API may answer the second request for the series, that of evaluate,
\* with the same prices only: the two requests are seconds apart
EvaluateSnapshot ==
    /\ full_market_data # <<>>
    /\ sell_signal = <<>>
    /\ LET df == get_historical_prices(price_series)
           pi == check_pi_cycle(df)
       IN  /\ historical_df' = df
           /\ pi_cycle_result' = <<pi>>
           /\ sell_signal' = <<DCASellStrategy_evaluate(sell_config, full_market_data[1],
                                                        sell_args.position, pi)>>
    /\ UNCHANGED <<buy_vars, indicator, sell_config, sell_args, price_series,
                   ledger_vars>>

NextSnapshot ==
    \/ GetFullMarketData
    \/ EvaluateSnapshot

SpecSnapshot == InitSnapshot /\ [][NextSnapshot]_vars

\* Runs of dca_buy.main, one after another on the same buy database
RunBuyMarketData ==
    {md \in BuyMarketData : md.price = 96 /\ md.pct_change_7d \in {-30, 10}
                            /\ md.rsi \in {34, 50, 71}}

InitBuyMain ==
    /\ buy_config = DefaultBuyConfig
    /\ sell_config = DefaultSellConfig
    /\ sell_args = DefaultSellArgs
    /\ price_series = <<>>
    /\ db_initial = EmptyDb
    /\ InitRest

BuyMainFrame ==
    UNCHANGED <<buy_config, indicator, sell_vars, position, sell_signals,
                sell_executions, signal_seq, last_op, connection_vars, snapshot_vars,
                command_vars>>

\* main(dry_run) is called
BuyMainStart ==
    /\ buy_run.pc \in {"idle", "returned"}
    /\ buy_run.runs < MaxRuns
    /\ \E dry_run \in BOOLEAN :
           buy_run' = [runs |-> buy_run.runs + 1, dry_run |-> dry_run, pc |-> "fetch",
                       market_data |-> <<>>, signal_id |-> 0, sent |-> <<>>,
                       exit |-> <<>>, history_before |-> Len(price_history),
                       signals_before |-> Len(buy_signals)]
    /\ buy_signal' = <<>>
    /\ UNCHANGED <<price_history, buy_signals>>
    /\ BuyMainFrame

\* try: market_data = market_service.get_full_market_data(for_sell=False)
\* except Exception: return 1
BuyMainFetch ==
    /\ buy_run.pc = "fetch"
    /\ \/ \E md \in RunBuyMarketData :
              buy_run' = [buy_run EXCEPT !.pc = "save_price_snapshot",
                                         !.market_data = <<md>>]
       \/ buy_run' = main_returns(buy_run, 1)
    /\ UNCHANGED <<buy_signal, price_history, buy_signals>>
    /\ BuyMainFrame

BuyMainSavePriceSnapshot ==
    /\ buy_run.pc = "save_price_snapshot"
    /\ save_price_snapshot(buy_run.market_data[1])
    /\ buy_run' = [buy_run EXCEPT !.pc = "evaluate"]
    /\ UNCHANGED <<buy_signal, buy_signals>>
    /\ BuyMainFrame

BuyMainEvaluate ==
    /\ buy_run.pc = "evaluate"
    /\ buy_signal' = <<DCABuyStrategy_evaluate(buy_config, buy_run.market_data[1])>>
    /\ buy_run' = [buy_run EXCEPT !.pc = "save_signal"]
    /\ UNCHANGED <<price_history, buy_signals>>
    /\ BuyMainFrame

BuyMainSaveSignal ==
    /\ buy_run.pc = "save_signal"
    /\ buy_save_signal(buy_signal[1])
    /\ buy_run' = [buy_run EXCEPT !.pc = "notify", !.signal_id = Len(buy_signals) + 1]
    /\ UNCHANGED <<buy_signal, price_history>>
    /\ BuyMainFrame

\* The if / elif / else at the end of main, with the call of
\* notifier.notify_buy_signal
BuyMainNotify ==
    /\ buy_run.pc = "notify"
    /\ IF attempts_notification(buy_run.dry_run, buy_signal[1])
       THEN \E ok \in BOOLEAN :
                buy_run' = IF ok
                           THEN [buy_run EXCEPT !.pc = "mark_notified", !.sent = <<ok>>]
                           ELSE [main_returns(buy_run, 0) EXCEPT !.sent = <<ok>>]
       ELSE buy_run' = main_returns(buy_run, 0)
    /\ UNCHANGED <<buy_signal, price_history, buy_signals>>
    /\ BuyMainFrame

BuyMainMarkNotified ==
    /\ buy_run.pc = "mark_notified"
    /\ buy_mark_notified(buy_run.signal_id)
    /\ buy_run' = main_returns(buy_run, 0)
    /\ UNCHANGED <<buy_signal, price_history>>
    /\ BuyMainFrame

NextBuyMain ==
    \/ BuyMainStart
    \/ BuyMainFetch
    \/ BuyMainSavePriceSnapshot
    \/ BuyMainEvaluate
    \/ BuyMainSaveSignal
    \/ BuyMainNotify
    \/ BuyMainMarkNotified

SpecBuyMain == InitBuyMain /\ [][NextBuyMain]_vars

\* The ledger: any sequence of SellRepository calls on a new database
InitLedger ==
    /\ buy_config = DefaultBuyConfig
    /\ sell_config = DefaultSellConfig
    /\ sell_args = DefaultSellArgs
    /\ price_series = <<>>
    /\ db_initial = EmptyDb
    /\ InitRest

GetOrCreatePosition ==
    /\ get_or_create_position
    /\ UNCHANGED <<buy_vars, indicator, sell_vars, connection_vars, run_vars>>

\* The signal saved is the one the evaluation of sell_args gives
SaveSignal ==
    /\ save_signal(DCASellStrategy_evaluate(sell_config, sell_args.market_data,
                                            sell_args.position, sell_args.pi_cycle))
    /\ UNCHANGED <<buy_vars, indicator, sell_vars, connection_vars, run_vars>>

MarkNotified ==
    /\ \E signal_id \in 1..MaxSignals : mark_notified(signal_id)
    /\ UNCHANGED <<buy_vars, indicator, sell_vars, connection_vars, run_vars>>

RecordSale ==
    /\ \E btc_amount \in SaleAmounts, price \in SalePrices,
          exchange \in Exchanges, signal_id \in SignalIds :
           record_sale(btc_amount, price, exchange, signal_id)
    /\ UNCHANGED <<buy_vars, indicator, sell_vars, connection_vars, run_vars>>

ResetPosition ==
    /\ \E a \in ResetArgs : reset_position(a.total_btc, a.cost_basis)
    /\ UNCHANGED <<buy_vars, indicator, sell_vars, connection_vars, run_vars>>

NextLedger ==
    \/ GetOrCreatePosition
    \/ SaveSignal
    \/ MarkNotified
    \/ RecordSale
    \/ ResetPosition

SpecLedger == InitLedger /\ [][NextLedger]_vars

\* The commands of dca_utils.py on a new database, one after the other
InitCommands ==
    /\ buy_config = DefaultBuyConfig
    /\ sell_config = DefaultSellConfig
    /\ sell_args = DefaultSellArgs
    /\ price_series = <<>>
    /\ db_initial = EmptyDb
    /\ InitRest

CommandFrame ==
    UNCHANGED <<buy_vars, indicator, sell_vars, connection_vars, snapshot_vars,
                buy_run_vars>>

BuyHistoryCommand ==
    /\ Len(commands) < MaxCommands
    /\ buy_history
    /\ CommandFrame

SellPositionCommand ==
    /\ Len(commands) < MaxCommands
    /\ sell_position
    /\ CommandFrame

SellSignalsCommand ==
    /\ Len(commands) < MaxCommands
    /\ sell_signals_listing
    /\ CommandFrame

SellRecordCommand ==
    /\ Len(commands) < MaxCommands
    /\ \E btc \in SaleAmounts, price \in SalePrices, exchange \in Exchanges :
           sell_record(btc, price, exchange)
    /\ CommandFrame

SellResetCommand ==
    /\ Len(commands) < MaxCommands
    /\ \E a \in ResetArgs, confirm \in {"yes", "no"} :
           sell_reset(a.total_btc, a.cost_basis, confirm)
    /\ CommandFrame

DashboardCommand ==
    /\ Len(commands) < MaxCommands
    /\ dashboard
    /\ CommandFrame

NextCommands ==
    \/ BuyHistoryCommand
    \/ SellPositionCommand
    \/ SellSignalsCommand
    \/ SellRecordCommand
    \/ SellResetCommand
    \/ DashboardCommand

SpecCommands == InitCommands /\ [][NextCommands]_vars

\* Concurrent callers: each runs one repository method on its own
\* connection, statement by statement
SoldBefore == 3

\* A database with one recorded sale and one saved signal, and a new one
PopulatedDb ==
    Db({PositionRow(total_btc, SoldBefore, cost_basis_usd)},
       {[id |-> 1,
         signal_type |-> DCASellStrategy_evaluate(DefaultSellConfig,
                             DefaultSellArgs.market_data, DefaultSellArgs.position,
                             DefaultSellArgs.pi_cycle).signal_type,
         notification_sent |-> FALSE, executed |-> FALSE]},
       <<[signal_id |-> None, btc_sold |-> SoldBefore, price_at_sale |-> 3,
          usd_received |-> SoldBefore * 3, exchange |-> "manual"]>>)

InitialDbs == {EmptyDb, PopulatedDb}

ConcurrentCalls ==
    {Call("record_sale", <<a, price, exchange, sid>>) :
        a \in SaleAmounts, price \in SalePrices, exchange \in Exchanges,
        sid \in {None, Some(1)}}
    \cup {Call("reset_position", <<a.total_btc, a.cost_basis>>) : a \in ResetArgs}
    \cup {Call("get_or_create_position", <<>>)}

InitConcurrent ==
    /\ buy_config = DefaultBuyConfig
    /\ buy_signal = <<>>
    /\ indicator = <<>>
    /\ sell_config = DefaultSellConfig
    /\ sell_args = DefaultSellArgs
    /\ sell_signal = <<>>
    /\ price_series = <<>>
    /\ historical_df = <<>>
    /\ pi_cycle_result = <<>>
    /\ db_initial \in InitialDbs
    /\ position = db_initial.position
    /\ sell_signals = db_initial.sell_signals
    /\ sell_executions = db_initial.sell_executions
    /\ signal_seq = Cardinality(db_initial.sell_signals)
    /\ last_op = Op("init", <<>>, <<>>)
    /\ InitRun
    /\ db_lock = 0
    /\ callers \in {[p \in Callers |->
                        [call |-> calls[p], pc |-> first_statement(calls[p]),
                         txn |-> EmptyDb, ret |-> <<>>, raised_at |-> ""]]
                    : calls \in [Callers -> ConcurrentCalls]}

ConcurrentFrame ==
    UNCHANGED <<buy_vars, indicator, sell_vars, signal_seq, last_op, db_initial,
                run_vars>>

RecordSaleInsert ==
    /\ \E p \in Callers : record_sale_insert(p)
    /\ ConcurrentFrame

RecordSaleUpdatePosition ==
    /\ \E p \in Callers : record_sale_update_position(p)
    /\ ConcurrentFrame

RecordSaleUpdateSignal ==
    /\ \E p \in Callers : record_sale_update_signal(p)
    /\ ConcurrentFrame

ResetPositionDeleteExecutions ==
    /\ \E p \in Callers : reset_position_delete_executions(p)
    /\ ConcurrentFrame

ResetPositionStatement ==
    /\ \E p \in Callers : reset_position_statement(p)
    /\ ConcurrentFrame

SelectPosition ==
    /\ \E p \in Callers : select_position(p)
    /\ ConcurrentFrame

InsertPositionDefault ==
    /\ \E p \in Callers : insert_position_default(p)
    /\ ConcurrentFrame

Commit ==
    /\ \E p \in Callers : commit(p)
    /\ ConcurrentFrame

DatabaseIsLocked ==
    /\ \E p \in Callers : database_is_locked(p)
    /\ ConcurrentFrame

StatementRaises ==
    /\ \E p \in Callers : statement_raises(p)
    /\ ConcurrentFrame

NextConcurrent ==
    \/ RecordSaleInsert
    \/ RecordSaleUpdatePosition
    \/ RecordSaleUpdateSignal
    \/ ResetPositionDeleteExecutions
    \/ ResetPositionStatement
    \/ SelectPosition
    \/ InsertPositionDefault
    \/ Commit
    \/ DatabaseIsLocked
    \/ StatementRaises

SpecConcurrent == InitConcurrent /\ [][NextConcurrent]_vars

\* The holdings: sales recorded in the ledger, and sell evaluations against
\* the position get_or_create_position returns
HoldingsSellArgs ==
    {[DefaultSellArgs EXCEPT !.market_data.rsi = rsi, !.market_data.mvrv_zscore = mvrv]
        : rsi \in {69, 70}, mvrv \in {None, Some(700)}}

InitHoldings ==
    /\ buy_config = DefaultBuyConfig
    /\ sell_config = DefaultSellConfig
    /\ sell_args \in HoldingsSellArgs
    /\ price_series = <<>>
    /\ db_initial = EmptyDb
    /\ InitRest

\* position = repo.get_or_create_position(), then
\* strategy.evaluate(market_data, position)
EvaluateOnPosition ==
    /\ last_op.op = "get_or_create_position"
    /\ sell_args' = [sell_args EXCEPT !.position = last_op.ret[1]]
    /\ sell_signal' = <<DCASellStrategy_evaluate(sell_config, sell_args.market_data,
                                                 last_op.ret[1], sell_args.pi_cycle)>>
    /\ UNCHANGED <<buy_vars, indicator, sell_config, history_vars, ledger_vars>>

NextHoldings ==
    \/ GetOrCreatePosition
    \/ RecordSale
    \/ EvaluateOnPosition

SpecHoldings == InitHoldings /\ [][NextHoldings]_vars

(***************************************************************************)
(* Properties of the buy classifier                                        *)
(***************************************************************************)
BuyOverbought(cfg, md) == md.rsi > cfg.rsi_overbought
BuyTurbo(cfg, md) ==
    \/ md.price * 100 < md.ma7 * cfg.ma_dip_threshold
    \/ md.pct_change_7d <= cfg.weekly_drop_threshold
BuyOversold(cfg, md) == md.rsi < cfg.rsi_oversold

C2_Amount ==
    \A i \in 1..Len(buy_signal) :
        LET s == buy_signal[i]
        IN  /\ s.multiplier = buy_config.multipliers[s.signal_type]
            /\ s.suggested_amount = buy_config.base_amount_usd * s.multiplier
            /\ buy_config.multipliers = DefaultMultipliers =>
                   /\ s.signal_type = "TURBO_BUY" => s.multiplier = 16
                   /\ s.signal_type = "EXTRA_BUY" => s.multiplier = 13
                   /\ s.signal_type = "NORMAL_DCA" =>
                          /\ s.multiplier = 10
                          /\ s.suggested_amount = buy_config.base_amount_usd * 10
                   /\ s.signal_type = "SKIP" =>
                          s.multiplier = 0 /\ s.suggested_amount = 0

\* A TURBO_BUY of the default configuration suggested 1.6 times the base amount
C2_Witness ==
    /\ buy_signal # <<>>
    /\ buy_config = DefaultBuyConfig
    /\ buy_signal[1].signal_type = "TURBO_BUY"
    /\ buy_signal[1].suggested_amount = 1600

(***************************************************************************)
(* Properties of the indicator levels                                      *)
(***************************************************************************)
\* C3: for thresholds w < d < c the level is CRITICAL iff value >= c, DANGER
\* iff d <= value < c, WARNING iff w <= value < d, and SAFE iff value < w.
C3_Level ==
    \A i \in 1..Len(indicator) :
        LET ind == indicator[i]
            v == ind.value
            w == ind.threshold_warning
            d == ind.threshold_danger
            c == ind.threshold_critical
        IN  (w < d /\ d < c) =>
                /\ (ind.level = "CRITICAL") <=> (v >= c)
                /\ (ind.level = "DANGER") <=> (d <= v /\ v < c)
                /\ (ind.level = "WARNING") <=> (w <= v /\ v < d)
                /\ (ind.level = "SAFE") <=> (v < w)

\* A value on the danger threshold of ascending thresholds was classified DANGER
C3_Witness ==
    /\ indicator # <<>>
    /\ indicator[1].threshold_warning < indicator[1].threshold_danger
    /\ indicator[1].threshold_danger < indicator[1].threshold_critical
    /\ indicator[1].value = indicator[1].threshold_danger
    /\ indicator[1].level = "DANGER"

(***************************************************************************)
(* Properties of the sell recommender                                      *)
(***************************************************************************)
NumAt(s, levels) ==
    Cardinality({i \in 1..Len(s.indicators) : s.indicators[i].level \in levels})

AnyAt(s, level) == NumAt(s, {level}) > 0

Triggered(s) == NumAt(s, {"WARNING", "DANGER", "CRITICAL"})

\* C4: the signal is SELL iff the number of indicators at WARNING, DANGER or
\* CRITICAL is at least min_signals_to_sell or Pi Cycle fired; otherwise ALERT
\* iff that number is at least min_signals_to_alert; otherwise HOLD.
C4_Classification ==
    \A i \in 1..Len(sell_signal) :
        LET s == sell_signal[i]
            sell == Triggered(s) >= sell_config.min_signals_to_sell
                    \/ s.pi_cycle_triggered
            alert == ~sell /\ Triggered(s) >= sell_config.min_signals_to_alert
        IN  /\ (s.signal_type = "SELL") <=> sell
            /\ (s.signal_type = "ALERT") <=> alert
            /\ (s.signal_type = "HOLD") <=> (~sell /\ ~alert)

\* Pi Cycle alone, no indicator triggered and min_signals_to_sell = 2, gave SELL
C4_Witness ==
    /\ sell_signal # <<>>
    /\ sell_config.min_signals_to_sell = 2
    /\ sell_signal[1].pi_cycle_triggered
    /\ Triggered(sell_signal[1]) = 0
    /\ sell_signal[1].signal_type = "SELL"

\* The tier a key of sell_tiers stands for (keys 1 and 2 have fallbacks)
TierOf(cfg, key) ==
    IF key \in DOMAIN cfg.sell_tiers THEN cfg.sell_tiers[key]
    ELSE IF key = "1" THEN 10 ELSE 15

SetMax(S) == IF S = {} THEN 0 ELSE CHOOSE x \in S : \A y \in S : y <= x

\* The floors of C5: the pi-cycle tier if Pi Cycle fired; tier 3 if any
\* indicator is CRITICAL, else tier 2 if any is DANGER, else tier 1 if any is
\* WARNING and no tier has been set (the percentage is still 0).
ApplicableFloors(cfg, s) ==
    LET pi_floor == IF s.pi_cycle_triggered THEN {TierOf(cfg, "pi_cycle")} ELSE {}
    IN  pi_floor \cup
        (IF AnyAt(s, "CRITICAL") THEN {TierOf(cfg, "3")}
         ELSE IF AnyAt(s, "DANGER") THEN {TierOf(cfg, "2")}
         ELSE IF AnyAt(s, "WARNING") /\ SetMax(pi_floor) = 0 THEN {TierOf(cfg, "1")}
         ELSE {})

TiersAscend(cfg) ==
    /\ TierOf(cfg, "1") <= TierOf(cfg, "2")
    /\ TierOf(cfg, "2") <= TierOf(cfg, "3")

RawScore(s) ==
    10 * NumAt(s, {"WARNING"}) + 25 * NumAt(s, {"DANGER"})
    + 40 * NumAt(s, {"CRITICAL"}) + (IF s.pi_cycle_triggered THEN 30 ELSE 0)

\* C6: risk_score = min(100, 10 * warnings + 25 * dangers + 40 * criticals
\* + (30 if Pi Cycle fired else 0)).
C6_RiskScore ==
    \A i \in 1..Len(sell_signal) :
        sell_signal[i].risk_score
            = (IF RawScore(sell_signal[i]) > 100 THEN 100
               ELSE RawScore(sell_signal[i]))

\* A weighted sum above 100 was clamped to 100
C6_Witness ==
    /\ sell_signal # <<>>
    /\ RawScore(sell_signal[1]) > 100
    /\ sell_signal[1].risk_score = 100

\* The counts of s with one more indicator at WARNING, DANGER or CRITICAL, or
\* with one of its indicators raised to a more severe level
MoreSevereCounts(s) ==
    LET k == count_signals(s.indicators)
    IN  {[k EXCEPT !.warning = @ + 1], [k EXCEPT !.danger = @ + 1],
         [k EXCEPT !.critical = @ + 1]}
        \cup (IF k.warning > 0
              THEN {[k EXCEPT !.warning = @ - 1, !.danger = @ + 1],
                    [k EXCEPT !.warning = @ - 1, !.critical = @ + 1]}
              ELSE {})
        \cup (IF k.danger > 0
              THEN {[k EXCEPT !.danger = @ - 1, !.critical = @ + 1]}
              ELSE {})

\* C7: the risk score is within [0, 100], and raising a severity count,
\* raising one indicator to a more severe level or switching Pi Cycle from
\* false to true never lowers it.
C7_Monotone ==
    \A i \in 1..Len(sell_signal) :
        LET s == sell_signal[i]
        IN  /\ 0 <= s.risk_score /\ s.risk_score <= 100
            /\ \A k \in MoreSevereCounts(s) :
                   /\ calculate_risk_score(k, s.pi_cycle_triggered) >= s.risk_score
                   /\ calculate_risk_score(k, s.pi_cycle_triggered) <= 100
            /\ calculate_risk_score(count_signals(s.indicators), TRUE) >= s.risk_score

\* A score already at 100 whose more severe neighbours stay at 100
C7_Witness ==
    /\ sell_signal # <<>>
    /\ ~sell_signal[1].pi_cycle_triggered
    /\ sell_signal[1].risk_score = 100
    /\ NumAt(sell_signal[1], {"WARNING"}) > 0
    /\ NumAt(sell_signal[1], {"DANGER"}) > 0

(***************************************************************************)
(* Properties of the position ledger                                       *)
(***************************************************************************)
\* The step is a call of the repository method named op
IsCall(op) == last_op'.op = op

\* C8: record_sale(btc_amount, price, exchange, signal_id) on an existing
\* position appends exactly one sale event holding btc_amount, price,
\* usd_received = btc_amount * price and exchange, increases sold_btc by
\* btc_amount (remaining_btc drops by btc_amount), returns
\* btc_amount * price, and marks executed the signal with the given
\* signal_id, if one is supplied, and no other signal.
C8_RecordSale ==
    [][(IsCall("record_sale") /\ position_rows # {}) =>
        LET btc_amount == last_op'.args[1]
            price == last_op'.args[2]
            exchange == last_op'.args[3]
            signal_id == last_op'.args[4]
            n == Len(sell_executions)
        IN  /\ Len(sell_executions') = n + 1
            /\ SubSeq(sell_executions', 1, n) = sell_executions
            /\ sell_executions'[n + 1].btc_sold = btc_amount
            /\ sell_executions'[n + 1].price_at_sale = price
            /\ sell_executions'[n + 1].usd_received = btc_amount * price
            /\ sell_executions'[n + 1].exchange = exchange
            /\ Cardinality(position') = 1
            /\ \A r \in position : \A q \in position' :
                   /\ q.sold_btc = r.sold_btc + btc_amount
                   /\ remaining_btc(q) = remaining_btc(r) - btc_amount
                   /\ q.total_btc = r.total_btc
                   /\ q.cost_basis = r.cost_basis
            /\ last_op'.ret = <<btc_amount * price>>
            /\ {r.id : r \in sell_signals'} = {r.id : r \in sell_signals}
            /\ Cardinality(sell_signals') = Cardinality(sell_signals)
            /\ \A r \in sell_signals : \A q \in sell_signals' :
                   q.id = r.id =>
                       /\ q.executed <=>
                              (r.executed \/ (signal_id.some /\ signal_id.val = r.id))
                       /\ q.notification_sent = r.notification_sent
    ]_vars

\* A sale on an existing position named a stored signal, which is now
\* executed, while another stored signal is still pending
C8_Witness ==
    /\ last_op.op = "record_sale"
    /\ position_rows # {}
    /\ last_op.args[4].some
    /\ \E r \in sell_signals : r.id = last_op.args[4].val /\ r.executed
    /\ \E r \in sell_signals : ~r.executed

\* C9: in every reachable state the stored position satisfies
\* 0 <= sold_btc <= total_btc.
C9_SoldWithinTotal ==
    \A r \in position : 0 <= r.sold_btc /\ r.sold_btc <= r.total_btc

\* C10: between two resets sold_btc never decreases, and it changes only in
\* a step that is a recorded sale.
C10_SoldMonotone ==
    [][(position_rows # {} /\ ~IsCall("reset_position")) =>
        \A r \in position : \A q \in position' :
            /\ q.sold_btc >= r.sold_btc
            /\ q.sold_btc # r.sold_btc => IsCall("record_sale")
    ]_vars

ConfiguredPosition ==
    [total_btc |-> sell_config.total_btc, sold_btc |-> 0,
     cost_basis |-> sell_config.cost_basis_usd]

\* C11: get_or_create_position on a ledger without a position creates the
\* one row of the configured defaults with sold_btc = 0 and returns it; on a
\* ledger with a position it returns the stored row and writes nothing, so a
\* call that follows a call returns the same Position; and no step other
\* than reset_position and record_sale changes the stored row in between.
C11_Idempotent ==
    [][/\ IsCall("get_or_create_position") =>
            /\ Cardinality(position') = 1
            /\ \A q \in position' : last_op'.ret = <<PositionOf(q)>>
            /\ position_rows = {} =>
                   /\ last_op'.ret = <<ConfiguredPosition>>
                   /\ position' = {PositionRow(sell_config.total_btc, 0,
                                               sell_config.cost_basis_usd)}
            /\ position_rows # {} => position' = position
            /\ last_op.op = "get_or_create_position" => last_op'.ret = last_op.ret
            /\ UNCHANGED <<sell_signals, sell_executions>>
       /\ (position_rows # {} /\ ~IsCall("reset_position") /\ ~IsCall("record_sale"))
              => position' = position
    ]_vars

\* A call on a ledger that holds a position after a sale returned the stored
\* row, not the configured defaults
C11_Witness ==
    /\ last_op.op = "get_or_create_position"
    /\ last_op.ret # <<ConfiguredPosition>>
    /\ last_op.ret[1].sold_btc # 0
    /\ Cardinality(position) = 1

\* C12: reset_position(total_btc, cost_basis) leaves exactly the position
\* (total_btc, sold_btc = 0, cost_basis), no sell signal and no sale event,
\* whatever the ledger held; the get_or_create_position that follows returns
\* that position.
C12_Reset ==
    [][/\ IsCall("reset_position") =>
            /\ position' = {PositionRow(last_op'.args[1], 0, last_op'.args[2])}
            /\ sell_signals' = {}
            /\ sell_executions' = <<>>
       /\ (last_op.op = "reset_position" /\ IsCall("get_or_create_position")) =>
            /\ last_op'.ret = <<[total_btc |-> last_op.args[1], sold_btc |-> 0,
                                 cost_basis |-> last_op.args[2]]>>
            /\ position' = position
    ]_vars

\* A get_or_create_position after a reset that discarded stored signals
\* returned the position of the reset, which is not the configured one
C12_Witness ==
    /\ last_op.op = "get_or_create_position"
    /\ last_op.ret # <<ConfiguredPosition>>
    /\ last_op.ret[1].sold_btc = 0
    /\ signal_seq > 0
    /\ sell_signals = {}
    /\ sell_executions = <<>>

\* C13: once a position exists, no step other than reset_position changes
\* its total_btc or its cost_basis.
C13_TotalAndCostFrame ==
    [][(position_rows # {} /\ ~IsCall("reset_position")) =>
        /\ Cardinality(position') = 1
        /\ \A r \in position : \A q \in position' :
               q.total_btc = r.total_btc /\ q.cost_basis = r.cost_basis
    ]_vars

\* A sale changed sold_btc of the position a reset had stored, and left its
\* total_btc and cost_basis
C13_Witness ==
    /\ last_op.op = "record_sale"
    /\ \E r \in position :
           /\ r.sold_btc # 0
           /\ r.total_btc # sell_config.total_btc
           /\ r.cost_basis # sell_config.cost_basis_usd

(***************************************************************************)
(* Properties of the indicator list, the amounts and the reasons           *)
(***************************************************************************)
IndicatorOrder ==
    <<"MVRV Z-Score", "NUPL", "RSI (Daily)", "Mayer Multiple", "Fear & Greed">>

\* The snapshot field an indicator name stands for (RSI is not optional)
FieldOf(md, name) ==
    CASE name = "MVRV Z-Score" -> md.mvrv_zscore
      [] name = "NUPL" -> md.nupl
      [] name = "RSI (Daily)" -> Some(md.rsi)
      [] name = "Mayer Multiple" -> md.mayer_multiple
      [] name = "Fear & Greed" -> md.fear_greed

PresentNames(md) == SelectSeq(IndicatorOrder, LAMBDA n : FieldOf(md, n).some)

\* C16: the indicator list holds, in the order MVRV, NUPL, RSI, Mayer,
\* Fear & Greed, one indicator for each of these whose snapshot field is
\* present and none for an absent one; RSI is always listed; each holds the
\* value of its field; Fear & Greed is classified with 65 / 75 / 85.
C16_IndicatorList ==
    \A i \in 1..Len(sell_signal) :
        LET s == sell_signal[i]
            md == s.market_data
        IN  /\ [k \in 1..Len(s.indicators) |-> s.indicators[k].name] = PresentNames(md)
            /\ \E k \in 1..Len(s.indicators) : s.indicators[k].name = "RSI (Daily)"
            /\ \A k \in 1..Len(s.indicators) :
                   LET ind == s.indicators[k]
                   IN  /\ ind.value = FieldOf(md, ind.name).val
                       /\ ind.name = "Fear & Greed" =>
                              /\ ind.threshold_warning = 65
                              /\ ind.threshold_danger = 75
                              /\ ind.threshold_critical = 85
                              /\ (ind.level = "CRITICAL") <=> (ind.value >= 85)
                              /\ (ind.level = "DANGER") <=>
                                     (ind.value >= 75 /\ ind.value < 85)
                              /\ (ind.level = "WARNING") <=>
                                     (ind.value >= 65 /\ ind.value < 75)
                              /\ (ind.level = "SAFE") <=> (ind.value < 65)

\* A snapshot without MVRV and Mayer gave the list NUPL, RSI, Fear & Greed,
\* the last one at WARNING on its threshold 65
C16_Witness ==
    /\ sell_signal # <<>>
    /\ ~sell_signal[1].market_data.mvrv_zscore.some
    /\ ~sell_signal[1].market_data.mayer_multiple.some
    /\ Len(sell_signal[1].indicators) = 3
    /\ sell_signal[1].indicators[1].name = "NUPL"
    /\ sell_signal[1].indicators[2].name = "RSI (Daily)"
    /\ sell_signal[1].indicators[3].name = "Fear & Greed"
    /\ sell_signal[1].indicators[3].value = 65
    /\ sell_signal[1].indicators[3].level = "WARNING"

\* C17: sell_amount_btc = (total_btc - sold_btc) * sell_percentage of the
\* position the evaluation was given, and
\* sell_amount_usd = sell_amount_btc * price of the snapshot.
C17_SellAmounts ==
    \A i \in 1..Len(sell_signal) :
        LET s == sell_signal[i]
            pos == sell_args.position
        IN  /\ s.sell_amount_btc = (pos.total_btc - pos.sold_btc) * s.sell_percentage
            /\ s.sell_amount_usd = s.sell_amount_btc * s.market_data.price

\* A position with part of its holdings sold got a positive amount, a share
\* of what is left
C17_Witness ==
    /\ sell_signal # <<>>
    /\ sell_args.position.sold_btc > 0
    /\ sell_signal[1].sell_percentage > 0
    /\ sell_signal[1].sell_amount_btc
           = (sell_args.position.total_btc - sell_args.position.sold_btc)
             * sell_signal[1].sell_percentage
    /\ sell_signal[1].sell_amount_btc
           < sell_args.position.total_btc * sell_signal[1].sell_percentage
    /\ sell_signal[1].sell_amount_usd > sell_signal[1].sell_amount_btc

\* One reason per triggering condition: Pi Cycle first, then each indicator
\* at WARNING, DANGER or CRITICAL, in the order of the list, with its level
ReasonPerTrigger(s) ==
    LET triggered == SelectSeq(s.indicators, LAMBDA ind : ind.level # "SAFE")
    IN  (IF s.pi_cycle_triggered
         THEN <<[name |-> "PI CYCLE TOP", level |-> "PI_CYCLE"]>> ELSE <<>>)
        \o [k \in 1..Len(triggered) |->
               [name |-> triggered[k].name, level |-> triggered[k].level]]

\* C18: the reasons of a SELL or ALERT signal are one entry for Pi Cycle if
\* it fired, followed by one entry for each indicator at WARNING, DANGER or
\* CRITICAL, tagged with its level; no triggered indicator is left out.
C18_ReasonPerTrigger ==
    \A i \in 1..Len(sell_signal) :
        sell_signal[i].signal_type \in {"SELL", "ALERT"} =>
            sell_signal[i].reasons = ReasonPerTrigger(sell_signal[i])

(***************************************************************************)
(* Properties of the Pi Cycle detector                                     *)
(***************************************************************************)
\* The sum of the first d days, 16 days at a time
RECURSIVE PrefixSum(_, _)
PrefixSum(df, d) ==
    IF d < 16 THEN (IF d = 0 THEN 0 ELSE df[d] + PrefixSum(df, d - 1))
    ELSE df[d - 15] + df[d - 14] + df[d - 13] + df[d - 12] + df[d - 11] + df[d - 10]
         + df[d - 9] + df[d - 8] + df[d - 7] + df[d - 6] + df[d - 5] + df[d - 4]
         + df[d - 3] + df[d - 2] + df[d - 1] + df[d]
         + PrefixSum(df, d - 16)

\* The w-day average of day d exists from day w on; it is WindowSum / w
HasAverage(df, w, d) == d >= w /\ d <= Len(df)
WindowSum(df, w, d) == PrefixSum(df, d) - PrefixSum(df, d - w)

\* MA-111 against twice MA-350 on day d, both sides times 111 * 350
Ma111x(df, d) == WindowSum(df, 111, d) * 350
Ma350x2(df, d) == 2 * WindowSum(df, 350, d) * 111

\* On one of the last 3 days MA-111 is at or above twice MA-350 while on the
\* day before it was strictly below; an average that does not exist is
\* neither
CrossedUp(df) ==
    \E d \in (Len(df) - 2)..Len(df) :
        /\ HasAverage(df, 111, d) /\ HasAverage(df, 350, d)
        /\ Ma111x(df, d) >= Ma350x2(df, d)
        /\ HasAverage(df, 111, d - 1) /\ HasAverage(df, 350, d - 1)
        /\ Ma111x(df, d - 1) < Ma350x2(df, d - 1)

\* (2 * MA-350 - MA-111) / (2 * MA-350) < 2 % on the last day
GapUnder2Percent(df) ==
    LET d == Len(df)
    IN  (Ma350x2(df, d) - Ma111x(df, d)) * 100 < 2 * Ma350x2(df, d)

\* C14: on a series of at least 350 days the detector returns true iff a
\* crossing took place in the last 3 days, or none did and the gap of the
\* last day is under 2 %; series of 350 to 353 days included.
C14_PiCycle ==
    (pi_cycle_result # <<>> /\ Len(historical_df) >= 350) =>
        (pi_cycle_result[1] <=>
            (\/ CrossedUp(historical_df)
             \/ ~CrossedUp(historical_df) /\ GapUnder2Percent(historical_df)))

\* On a series of 353 days a crossing in the 3-day window fired the detector
\* although the gap of the last day is not under 2 %
C14_Witness ==
    /\ pi_cycle_result = <<TRUE>>
    /\ Len(historical_df) = 353
    /\ CrossedUp(historical_df)
    /\ ~GapUnder2Percent(historical_df)

\* C15: on a frame of fewer than 350 rows the detector returns false, and
\* the evaluation goes on: it returns a signal with pi_cycle_triggered =
\* false whose type and risk score come from the indicators alone.
C15_ShortSeries ==
    (pi_cycle_result # <<>> /\ Len(historical_df) < 350) =>
           /\ pi_cycle_result = <<FALSE>>
           /\ \A i \in 1..Len(sell_signal) :
                  LET s == sell_signal[i]
                      n == Triggered(s)
                  IN  /\ ~s.pi_cycle_triggered
                      /\ s.signal_type =
                             (IF n >= sell_config.min_signals_to_sell THEN "SELL"
                              ELSE IF n >= sell_config.min_signals_to_alert THEN "ALERT"
                              ELSE "HOLD")
                      /\ s.risk_score
                             = Min(100, 10 * NumAt(s, {"WARNING"}) + 25 * NumAt(s, {"DANGER"})
                                        + 40 * NumAt(s, {"CRITICAL"}))
                      /\ \A k \in 1..Len(s.reasons) : s.reasons[k].level # "PI_CYCLE"

\* An evaluation whose frame had rows, but fewer than 350, returned ALERT
\* for its one WARNING indicator
C15_Witness ==
    /\ sell_signal # <<>>
    /\ pi_cycle_result = <<FALSE>>
    /\ Len(historical_df) > 0
    /\ Len(historical_df) < 350
    /\ sell_signal[1].signal_type = "ALERT"
    /\ ~sell_signal[1].pi_cycle_triggered

AloneOn(db, call) ==
    CASE call.op = "record_sale" ->
             Db({IF r.id = 1 THEN [r EXCEPT !.sold_btc = @ + call.args[1]] ELSE r
                 : r \in db.position},
                {IF call.args[4].some /\ call.args[4].val # 0 /\ r.id = call.args[4].val
                 THEN [r EXCEPT !.executed = TRUE] ELSE r
                 : r \in db.sell_signals},
                db.sell_executions \o
                    <<[signal_id |-> call.args[4], btc_sold |-> call.args[1],
                       price_at_sale |-> call.args[2],
                       usd_received |-> call.args[1] * call.args[2],
                       exchange |-> call.args[3]]>>)
      [] call.op = "reset_position" ->
             Db({[id |-> 1, total_btc |-> call.args[1], sold_btc |-> 0,
                  cost_basis |-> call.args[2]]}, {}, <<>>)
      [] OTHER ->
             IF db.position = {}
             THEN [db EXCEPT !.position =
                      {[id |-> 1, total_btc |-> sell_config.total_btc, sold_btc |-> 0,
                        cost_basis |-> sell_config.cost_basis_usd]}]
             ELSE db

\* The databases the callers in S leave when they run one after another, in
\* any order
RECURSIVE SequentialOutcomes(_, _)
SequentialOutcomes(S, db) ==
    IF S = {} THEN {db}
    ELSE UNION {SequentialOutcomes(S \ {p}, AloneOn(db, callers[p].call)) : p \in S}

Returned == {p \in Callers : callers[p].pc = "returned"}
Raised == {p \in Callers : callers[p].pc = "raised"}

\* The positions get_or_create_position returns on the databases some of the
\* other callers leave when they run one after another
SequentialPositions(p) ==
    {[total_btc |-> r.total_btc, sold_btc |-> r.sold_btc, cost_basis |-> r.cost_basis] :
        r \in UNION {AloneOn(db, callers[p].call).position :
                        db \in UNION {SequentialOutcomes(S, db_initial) :
                                         S \in SUBSET (Callers \ {p})}}}

SumSold(events) ==
    LET RECURSIVE Sum(_)
        Sum(i) == IF i = 0 THEN 0 ELSE events[i].btc_sold + Sum(i - 1)
    IN  Sum(Len(events))

\* C20: callers that run record_sale, reset_position and
\* get_or_create_position at the same time, each on its own connection,
\* leave what the calls that returned leave when run one after another in
\* some order: two sales that both return add both amounts to sold_btc and
\* add two sale events, and the position get_or_create_position returns is
\* one a sequential run shows, never a sale event without its increment.
C20_Serializable ==
    /\ Returned \cup Raised = Callers
           => committed_db \in SequentialOutcomes(Returned, db_initial)
    /\ \A p \in Returned, q \in Returned :
           (/\ p # q
            /\ callers[p].call.op = "record_sale"
            /\ callers[q].call.op = "record_sale"
            /\ db_initial = PopulatedDb
            /\ \A o \in Callers \ {p, q} : callers[o].call.op = "get_or_create_position")
           => /\ \A r \in position :
                     r.sold_btc = SoldBefore + callers[p].call.args[1]
                                             + callers[q].call.args[1]
              /\ Len(sell_executions) = Len(db_initial.sell_executions) + 2
    /\ \A p \in Returned :
           callers[p].call.op = "get_or_create_position"
           => callers[p].ret[1] \in SequentialPositions(p)
    /\ db_initial = PopulatedDb
           => \A r \in position : r.sold_btc = SumSold(sell_executions)

\* Two sales of different amounts were started together on a database that
\* held a sale, and both returned
C20_Witness ==
    /\ db_initial = PopulatedDb
    /\ Returned = Callers
    /\ \A p \in Callers : callers[p].call.op = "record_sale"
    /\ callers[1].call.args[1] # callers[2].call.args[1]
    /\ Len(sell_executions) = 3
    /\ \E r \in position :
           r.sold_btc = SoldBefore + callers[1].call.args[1] + callers[2].call.args[1]


(***************************************************************************)
(* Properties of the sell snapshot                                         *)
(***************************************************************************)
IndicatorNames(signal) == {signal.indicators[i].name : i \in 1..Len(signal.indicators)}

\* C21: when the Fear & Greed request fails, or the on-chain MVRV request
\* fails or returns nothing, the snapshot built for the sell path leaves the
\* field absent and the sell signal evaluated on it lists no indicator for
\* it.
C21_AbsentMetricOmitted ==
    /\ (full_market_data # <<>> /\ ~provider.fear_greed.some)
           => ~full_market_data[1].fear_greed.some
    /\ (full_market_data # <<>> /\ ~provider.mvrv.some)
           => ~full_market_data[1].mvrv_zscore.some
    /\ (sell_signal # <<>> /\ ~provider.fear_greed.some)
           => "Fear & Greed" \notin IndicatorNames(sell_signal[1])
    /\ (sell_signal # <<>> /\ ~provider.mvrv.some)
           => "MVRV Z-Score" \notin IndicatorNames(sell_signal[1])


\* C22: on the sell path the series DCASellStrategy.evaluate hands to the Pi
\* Cycle detector still holds at least 350 daily points whenever the provider
\* delivered 365 days of prices, so the detector evaluates the crossover.
C22_DetectorSeesSeries ==
    (sell_signal # <<>> /\ Len(price_series) >= 365)
        => Len(historical_df) >= pi_cycle_min_rows


(***************************************************************************)
(* Properties of dca_buy.main                                              *)
(***************************************************************************)
SnapshotSaved == Len(price_history) = buy_run.history_before + 1
SignalSaved == Len(buy_signals) = buy_run.signals_before + 1
NothingSaved ==
    /\ Len(price_history) = buy_run.history_before
    /\ Len(buy_signals) = buy_run.signals_before

C24_SoldIsSumOfSales ==
    \A r \in position_rows : r.sold_btc = SumSold(sell_executions)


\* C25: a sell signal evaluated against a position that
\* get_or_create_position returned after any sequence of record_sale calls
\* has 0 <= sell_amount_btc <= remaining_btc and sell_amount_usd >= 0
\* (sell_amount_btc is remaining_btc times a percentage, so it is compared
\* with 100 times remaining_btc).
C25_AmountsWithinHoldings ==
    sell_signal # <<>>
        => /\ 0 <= sell_signal[1].sell_amount_btc
           /\ sell_signal[1].sell_amount_btc <= 100 * remaining_btc(sell_args.position)
           /\ sell_signal[1].sell_amount_usd >= 0


(***************************************************************************)
(* Properties of the HOLD signal                                           *)
(***************************************************************************)
HoldSellsNothing(s) ==
    s.signal_type = "HOLD"
        => /\ s.sell_percentage = 0
           /\ s.sell_amount_btc = 0
           /\ s.sell_amount_usd = 0
           /\ Triggered(s) = 0

NoneReturned == Returned = {}

\* C27: record_sale is all-or-nothing: when one of its three writes raises,
\* none is persisted, and position, sale events and signals are as before
\* the call; a reset_position that raises leaves the previous position and
\* histories as they were.  (While no caller has returned the tables are
\* those the callers found; afterwards they are what the calls that
\* returned leave, the calls that raised left out.)
C27_AllOrNothing ==
    /\ NoneReturned => committed_db = db_initial
    /\ Returned \cup Raised = Callers
           => committed_db \in SequentialOutcomes(Returned, db_initial)
    /\ \A p \in Raised : callers[p].txn = EmptyDb /\ db_lock # p

\* record_sale raised at its third write and reset_position at its last,
\* after the earlier ones had run, and the tables are as the two found them
C27_Witness ==
    /\ db_initial = PopulatedDb
    /\ committed_db = PopulatedDb
    /\ \E p \in Raised, q \in Raised :
           /\ callers[p].call.op = "record_sale"
           /\ callers[p].raised_at = "update_signal"
           /\ callers[q].call.op = "reset_position"
           /\ callers[q].raised_at = "insert_position"


(***************************************************************************)
(* The refactored and the standalone sell recommender                      *)
(***************************************************************************)
\* The MarketAnalysis the standalone script builds for the indicators of a
\* refactored signal: add_indicator counts each level as it assigns it.
AnalysisOf(s) ==
    [price |-> s.market_data.price,
     indicators |-> s.indicators,
     signals_warning |-> CountLevel(s.indicators, "WARNING"),
     signals_danger |-> CountLevel(s.indicators, "DANGER"),
     signals_critical |-> CountLevel(s.indicators, "CRITICAL"),
     pi_cycle_triggered |-> s.pi_cycle_triggered]

StandaloneOf(s) ==
    dca_sell_generate_recommendation(
        AnalysisOf(s), [remaining_btc |-> remaining_btc(sell_args.position)])

\* C28: under the default tiers and thresholds, for the same indicator levels,
\* Pi Cycle flag and remaining holdings, _generate_recommendation returns the
\* sell_percentage and the two sell amounts of dca_sell.generate_recommendation,
\* and its signal type is the label dca_sell.save_signal stores for that
\* recommendation, wherever the triggered indicators stand in the list.
C28_RecommendersAgree ==
    (sell_config = DefaultSellConfig /\ sell_signal # <<>>) =>
        LET s == sell_signal[1]
            rec == StandaloneOf(s)
        IN  /\ s.sell_percentage = rec.sell_percentage
            /\ s.sell_amount_btc = rec.sell_amount_btc
            /\ s.sell_amount_usd = rec.sell_amount_usd
            /\ s.signal_type = stored_recommendation(rec)

\* A warning stands in the list before a more severe indicator, holdings are
\* partly sold, and both recommenders have answered with the more severe tier.
C28_Witness ==
    /\ sell_config = DefaultSellConfig
    /\ sell_signal # <<>>
    /\ LET s == sell_signal[1]
       IN  /\ \E i, j \in 1..Len(s.indicators) :
                  /\ i < j
                  /\ s.indicators[i].level = "WARNING"
                  /\ s.indicators[j].level = "DANGER"
           /\ ~AnyAt(s, "CRITICAL")
           /\ ~s.pi_cycle_triggered
           /\ sell_args.position.sold_btc > 0
           /\ s.sell_percentage = tier_2
           /\ StandaloneOf(s).sell_percentage = tier_2
           /\ s.sell_amount_btc > 0
           /\ s.signal_type = "SELL"


(***************************************************************************)
(* The three buy classifiers                                               *)
(***************************************************************************)
\* The thresholds and multipliers of the configuration are the defaults
DefaultThresholds(cfg) ==
    /\ cfg.rsi_oversold = rsi_oversold
    /\ cfg.rsi_overbought = rsi_overbought
    /\ cfg.ma_dip_threshold = ma_dip_threshold
    /\ cfg.weekly_drop_threshold = weekly_drop_threshold
    /\ cfg.multipliers = DefaultMultipliers

\* What dca_optimizer.evaluate_market returns for the market data of a signal
\* in the same environment (both read DCA_BASE_AMOUNT)
OptimizerOf(s) ==
    evaluate_market(dca_optimizer_CONFIG(buy_config.base_amount_usd), s.market_data)

\* The row dca_backtest's "backtest" command computes for the same week
BacktestOf(s) ==
    backtest_strategy_week(backtest_defaults,
                           [price |-> s.market_data.price, ma7 |-> s.market_data.ma7,
                            pct_7d |-> s.market_data.pct_change_7d,
                            rsi |-> s.market_data.rsi])

\* C29: under the default thresholds, for the same price, ma7, pct_change_7d
\* and rsi, DCABuyStrategy.evaluate, dca_optimizer.evaluate_market and the
\* per-week classification of dca_backtest.backtest_strategy return the same
\* signal type, multiplier and suggested amount.
C29_BuyClassifiersAgree ==
    (buy_signal # <<>> /\ DefaultThresholds(buy_config)) =>
        LET s == buy_signal[1]
            o == OptimizerOf(s)
            b == BacktestOf(s)
        IN  /\ o.signal_type = s.signal_type
            /\ o.multiplier = s.multiplier
            /\ o.suggested_amount = s.suggested_amount
            /\ b.signal = s.signal_type
            /\ b.multiplier = s.multiplier
            /\ b.usd_optimized = s.suggested_amount


(***************************************************************************)
(* Repositories built with no argument                                     *)
(***************************************************************************)
SellCommands == {"sell_position", "sell_signals", "sell_record", "sell_reset", "dashboard"}

\* C30: a SellRepository built without db_path opens config.db_path exactly
\* as a BuyRepository does, so each ledger command that builds one with no
\* argument (sell position, signals, record, reset, dashboard) works on an
\* initialised ledger and does not end in an error.
C30_SellRepositoryOpensDefault ==
    \A i \in 1..Len(commands) :
        (commands[i].name \in SellCommands /\ commands[i].repo # <<>>) =>
            /\ commands[i].repo[1].db_path = Some(config_db_path)
            /\ commands[i].repo[1] = BuyRepository_init(None)
            /\ commands[i].repo[1].tables_created
            /\ commands[i].outcome = "ok"

====
